---- MODULE Spec2Model ----
(***************************************************************************)
(* The indexing core of hdoc (leafy-green-doc): the five AST match         *)
(* callbacks that fill the shared Index from worker threads, and the       *)
(* single-threaded post-passes of the Indexer.                             *)
(***************************************************************************)
EXTENDS Integers, Sequences, FiniteSets, TLC

VARIABLES
    cfg,         \* the read-only Config
    index,       \* the Index: five Databases, each a map SymbolID -> symbol
    numMatches,  \* Database::numMatches of each Database
    pc,          \* per worker: position inside the match callback
    cur,         \* per worker: the AST node the callback was handed
    handled,     \* number of AST nodes handed to callbacks so far
    stage,       \* position of the driver: indexing, then each post-pass
    reserves,    \* history: per Database and ID, the number of reserve(ID) calls made
    firstValue,  \* history: per Database, the value of the first completed update(ID, value)
    incs         \* history: per Database, the increments the workers performed

vars == <<cfg, index, numMatches, pc, cur, handled, stage, reserves, firstValue, incs>>

----------------------------------------------------------------------------
(* Bounds of the model *)

\* AST nodes handed to match callbacks during one run, over all workers
MaxDecls == 3

Workers == {"w1", "w2"}

Kinds == {"functions", "records", "enums", "namespaces", "aliases"}

----------------------------------------------------------------------------
(* SymbolID *)

\* hdoc::types::SymbolID(): the null ID
NullID == 0


----------------------------------------------------------------------------
(* Database<T>: contains / reserve / update, each one critical section *)

contains(db, id) == id \in DOMAIN db

MapPut(db, id, v) == [k \in DOMAIN db \cup {id} |-> IF k = id THEN v ELSE db[k]]

\* create an empty placeholder; an entry that is already there is kept
reserve(db, id, empty) == IF id \in DOMAIN db THEN db ELSE MapPut(db, id, empty)

\* store value under id
update(db, id, v) == MapPut(db, id, v)

erase(db, id) == [k \in DOMAIN db \ {id} |-> db[k]]

\* the number of entries
Size(db) == Cardinality(DOMAIN db)

EmptyDB == [k \in {} |-> 0]

----------------------------------------------------------------------------
(* Strings *)

StartsWithAt(s, from, pos) ==
    /\ pos + Len(from) - 1 <= Len(s)
    /\ SubSeq(s, pos, pos + Len(from) - 1) = from

Min(S) == CHOOSE x \in S : \A y \in S : x <= y
Max(S) == CHOOSE x \in S : \A y \in S : x >= y

\* the loop of replaceAll: find the next occurrence at or after pos, put to in
\* its place and go on after it
RECURSIVE replaceFrom(_, _, _, _)
replaceFrom(s, from, to, pos) ==
    LET found == {p \in pos..Len(s) : StartsWithAt(s, from, p)}
    IN  IF Len(from) = 0 \/ found = {} THEN SubSeq(s, pos, Len(s))
        ELSE SubSeq(s, pos, Min(found) - 1) \o to
             \o replaceFrom(s, from, to, Min(found) + Len(from))

\* hdoc::utils::replaceAll: every occurrence of from, scanning left to right,
\* the scan resuming after the inserted text
replaceAll(s, from, to) == replaceFrom(s, from, to, 1)

\* std::string::find(sub) != npos
Contains(s, sub) == \E i \in 1..(Len(s) + 1) : StartsWithAt(s, sub, i)

\* the positions of character c in s
Positions(s, c) == {i \in 1..Len(s) : SubSeq(s, i, i) = c}

\* std::regex_replace(s, std::regex("<.*>"), ""): the greedy match runs from the
\* first '<' to the last '>' after it
StripAngles(s) ==
    LET lt == Positions(s, "<")
        gt == Positions(s, ">")
    IN  IF lt = {} \/ {j \in gt : j > Min(lt)} = {} THEN s
        ELSE SubSeq(s, 1, Min(lt) - 1) \o SubSeq(s, Max(gt) + 1, Len(s))

RECURSIVE JoinStrings(_, _)
JoinStrings(strs, sep) ==
    IF Len(strs) = 0 THEN ""
    ELSE IF Len(strs) = 1 THEN strs[1]
    ELSE strs[1] \o sep \o JoinStrings(Tail(strs), sep)

\* the elements of a sequence
Range(seq) == {seq[i] : i \in 1..Len(seq)}

\* the number of times x occurs in seq
Occurrences(seq, x) == Cardinality({i \in 1..Len(seq) : seq[i] = x})

----------------------------------------------------------------------------
(* Symbols (types/Symbols.hpp), as far as the indexer reads or writes them *)

TypeRef(name, id) == [name |-> name, id |-> id]
NoTypeRef == TypeRef("", NullID)

\* a default-constructed FunctionSymbol: what reserve() leaves under an ID
EmptyFunctionSymbol ==
    [ID |-> NullID, name |-> "", declLine |-> 0, parentNamespaceID |-> NullID,
     access |-> "none", proto |-> "", postTemplate |-> 0, nameStart |-> 0,
     returnType |-> NoTypeRef, params |-> <<>>, templateParams |-> <<>>,
     isRecordMember |-> FALSE, isCtorOrDtor |-> FALSE]

EmptyRecordSymbol ==
    [ID |-> NullID, name |-> "", declLine |-> 0, parentNamespaceID |-> NullID,
     access |-> "none", type |-> "", proto |-> "", templateParams |-> <<>>,
     baseRecords |-> <<>>, methodIDs |-> <<>>, aliasIDs |-> <<>>, vars |-> <<>>]

EmptyEnumSymbol ==
    [ID |-> NullID, name |-> "", declLine |-> 0, parentNamespaceID |-> NullID,
     access |-> "none", type |-> ""]

EmptyNamespaceSymbol ==
    [ID |-> NullID, name |-> "", declLine |-> 0, parentNamespaceID |-> NullID,
     access |-> "none", records |-> <<>>, enums |-> <<>>, namespaces |-> <<>>,
     usings |-> <<>>]

EmptyAliasSymbol ==
    [ID |-> NullID, name |-> "", declLine |-> 0, parentNamespaceID |-> NullID,
     access |-> "none", target |-> NoTypeRef, isRecordMember |-> FALSE]

EmptySymbol(kind) ==
    CASE kind = "functions"  -> EmptyFunctionSymbol
      [] kind = "records"    -> EmptyRecordSymbol
      [] kind = "enums"      -> EmptyEnumSymbol
      [] kind = "namespaces" -> EmptyNamespaceSymbol
      [] kind = "aliases"    -> EmptyAliasSymbol

EmptyIndex == [k \in Kinds |-> EmptyDB]

----------------------------------------------------------------------------
(* What the matchers read of the AST *)

\* a clang::TagDecl as far as buildID and getNonSpecializedVersionOfDecl see it:
\* its own ID and the ID of its primary (non-specialized) declaration, NullID
\* when the declaration is no specialization
TagDecl(id, primary) == [id |-> id, primary |-> primary]
NoDecl == TagDecl(NullID, NullID)

\* a clang::QualType: the tag declaration of the type itself, of its pointee
\* and of its referent (NoDecl where there is none)
QualType(name, own, isPtr, pointee, isRef, referent) ==
    [name |-> name, ownTag |-> own, isPointerType |-> isPtr, pointeeTag |-> pointee,
     isReferenceType |-> isRef, referentTag |-> referent]

PlainType(name, decl)     == QualType(name, decl, FALSE, NoDecl, FALSE, NoDecl)
PointerType(name, decl)   == QualType(name, NoDecl, TRUE, decl, FALSE, NoDecl)
ReferenceType(name, decl) == QualType(name, NoDecl, FALSE, NoDecl, TRUE, decl)

\* the tag declaration's own ID, specialization or not
getOwnSymbolID(typ) ==
    LET ret == IF typ.ownTag # NoDecl THEN typ.ownTag
               ELSE IF typ.isPointerType /\ typ.pointeeTag # NoDecl THEN typ.pointeeTag
               ELSE IF typ.isReferenceType /\ typ.referentTag # NoDecl THEN typ.referentTag
               ELSE NoDecl
    IN  ret.id

getTypeSymbolID(typ) ==
    LET ret == IF typ.ownTag # NoDecl THEN typ.ownTag
               ELSE IF typ.isPointerType /\ typ.pointeeTag # NoDecl THEN typ.pointeeTag
               ELSE IF typ.isReferenceType /\ typ.referentTag # NoDecl THEN typ.referentTag
               ELSE NoDecl
    IN  IF ret # NoDecl /\ ret.primary # NullID THEN ret.primary
        ELSE IF ret = NoDecl THEN NullID
        ELSE ret.id

\* the fields every AST node of the model carries
Node ==
    [matcher |-> "", id |-> NullID, line |-> 1, name |-> "x", parent |-> NullID,
     access |-> "none", isInIgnoreList |-> FALSE, validRange |-> TRUE,
     isInAnonymousNamespace |-> FALSE, isCXXClassMember |-> FALSE,
     \* clang::FunctionDecl
     isDeletedAsWritten |-> FALSE, isDeductionGuide |-> FALSE, isStatic |-> FALSE,
     isCtorOrDtor |-> FALSE, returnType |-> PlainType("void", NoDecl), params |-> <<>>,
     templateParams |-> <<>>,
     \* clang::CXXRecordDecl
     isCompleteDefinition |-> TRUE, typedefName |-> "", isSpecialization |-> FALSE,
     typeAsWritten |-> TRUE, parentRecordName |-> "", kindName |-> "struct",
     methods |-> <<>>, decls |-> <<>>, bases |-> <<>>, fields |-> <<>>,
     templateArgs |-> <<>>,
     \* clang::NamedDecl handed to the using matcher
     declClass |-> "", isFunctionLocal |-> FALSE, shadows |-> <<>>,
     underlying |-> PlainType("int", NoDecl)]

----------------------------------------------------------------------------
(* Template parameters, as the function and the record matcher collect them *)

\* a default-constructed TemplateParam
EmptyTemplateParam ==
    [templateType |-> "TemplateTypeParameter", name |-> "", type |-> "",
     defaultValue |-> "", isTypename |-> FALSE, isParameterPack |-> FALSE]

\* a template parameter declaration of the AST
ParmDecl(class, name) ==
    [declClass |-> class, name |-> name, typeName |-> "", defaultArg |-> "",
     declaredWithTypename |-> FALSE, isParameterPack |-> FALSE, sourceText |-> ""]

\* the template parameters of a function template (FunctionMatcher::run)
FunctionTemplateParamOf(p) ==
    CASE p.declClass = "TemplateTypeParmDecl" ->
           [EmptyTemplateParam EXCEPT
               !.templateType = "TemplateTypeParameter",
               !.isParameterPack = p.isParameterPack,
               !.isTypename = p.declaredWithTypename,
               !.name = p.name, !.defaultValue = p.defaultArg]
      [] p.declClass = "NonTypeTemplateParmDecl" ->
           [EmptyTemplateParam EXCEPT
               !.templateType = "NonTypeTemplate",
               !.isParameterPack = p.isParameterPack,
               !.name = p.name, !.defaultValue = p.defaultArg, !.type = p.typeName]
      [] OTHER -> EmptyTemplateParam

\* the described template parameters of a record (RecordMatcher::run)
RecordTemplateParamOf(p) ==
    CASE p.declClass = "TemplateTypeParmDecl" ->
           [EmptyTemplateParam EXCEPT
               !.templateType = "TemplateTypeParameter",
               !.isTypename = p.declaredWithTypename,
               !.isParameterPack = p.isParameterPack,
               !.name = p.name, !.defaultValue = p.defaultArg]
      [] p.declClass = "NonTypeTemplateParmDecl" ->
           [EmptyTemplateParam EXCEPT
               !.templateType = "NonTypeTemplate",
               !.type = p.typeName,
               !.isParameterPack = p.isParameterPack,
               !.name = p.name, !.defaultValue = p.defaultArg]
      [] p.declClass = "TemplateTemplateParmDecl" ->
           [EmptyTemplateParam EXCEPT
               !.templateType = "TemplateTemplateType",
               !.type = p.sourceText,
               !.name = p.name,
               \* the ternary yields a non-null string literal either way
               !.isParameterPack = TRUE]
      [] OTHER -> EmptyTemplateParam

----------------------------------------------------------------------------
(* FunctionMatcher::run *)

\* the filter moved in front of the counter
FunctionEarlyReturnFiltered(res) ==
    res.isDeletedAsWritten \/ res.isDeductionGuide \/ res.isInIgnoreList \/ ~res.validRange

\* returns taken before the match is counted
FunctionEarlyReturn(res) == res.isDeletedAsWritten \/ res.isDeductionGuide

FunctionIgnored(res, c) ==
    \/ res.isInIgnoreList
    \/ ~res.validRange
    \/ (res.isStatic /\ ~res.isCXXClassMember)
    \/ res.isInAnonymousNamespace
    \/ (res.access = "private" /\ c.ignorePrivateMembers)

FunctionParamOf(p) ==
    [name |-> p.name,
     type |-> TypeRef(p.type.name, getTypeSymbolID(p.type)),
     defaultValue |-> p.defaultValue]

\* getFunctionSignature: "<template prelude> <qualifiers/return> <name>(<params>)"
\* and the two offsets into it
getFunctionSignature(f) ==
    LET tpl  == IF Len(f.templateParams) = 0 THEN ""
                ELSE "template <"
                     \o JoinStrings([i \in 1..Len(f.templateParams) |->
                                  "typename " \o f.templateParams[i].name], ", ")
                     \o "> "
        pre  == IF f.isCtorOrDtor THEN "" ELSE f.returnType.name \o " "
        parm == [i \in 1..Len(f.params) |->
                    f.params[i].type.name \o " " \o f.params[i].name
                    \o (IF f.params[i].defaultValue = "" THEN ""
                        ELSE " = " \o f.params[i].defaultValue)]
    IN  [proto |-> tpl \o pre \o f.name \o "(" \o JoinStrings(parm, ", ") \o ")",
         postTemplate |-> Len(tpl),
         nameStart |-> Len(tpl) + Len(pre)]

FunctionSymbolOf(res) ==
    LET f1 == [EmptyFunctionSymbol EXCEPT
                 !.ID = res.id, !.name = res.name, !.declLine = res.line,
                 !.access = res.access,
                 !.params = [i \in 1..Len(res.params) |-> FunctionParamOf(res.params[i])],
                 !.templateParams =
                     [i \in 1..Len(res.templateParams) |->
                        FunctionTemplateParamOf(res.templateParams[i])],
                 !.isCtorOrDtor = res.isCtorOrDtor]
        f2 == IF ~f1.isCtorOrDtor
              THEN [f1 EXCEPT !.returnType =
                        TypeRef(res.returnType.name, getTypeSymbolID(res.returnType))]
              ELSE [f1 EXCEPT !.name = StripAngles(f1.name)]
        sig == getFunctionSignature(f2)
    IN  [f2 EXCEPT !.proto = sig.proto, !.postTemplate = sig.postTemplate,
                   !.nameStart = sig.nameStart,
                   !.isRecordMember = res.isCXXClassMember,
                   !.parentNamespaceID = res.parent]

----------------------------------------------------------------------------
(* UsingMatcher::run *)

IsAliasDecl(res) == res.declClass \in {"UsingDecl", "UsingShadowDecl", "TypeAliasDecl"}

UsingEarlyReturn(res) == ~IsAliasDecl(res) \/ res.isFunctionLocal

UsingIgnored(res, c) ==
    \/ res.isInIgnoreList
    \/ ~res.validRange
    \/ (res.access = "private" /\ c.ignorePrivateMembers)

\* the target: the last shadow of a using-declaration, the target of a shadow
\* declaration, the underlying type of a type alias
AliasTargetOf(res) ==
    CASE res.declClass = "UsingDecl" ->
           IF Len(res.shadows) = 0 THEN NoTypeRef
           ELSE TypeRef(res.shadows[Len(res.shadows)].name, res.shadows[Len(res.shadows)].id)
      [] res.declClass = "UsingShadowDecl" ->
           TypeRef(res.shadows[1].name, res.shadows[1].id)
      [] res.declClass = "TypeAliasDecl" ->
           TypeRef(res.underlying.name, getTypeSymbolID(res.underlying))

AliasSymbolOf(res) ==
    [EmptyAliasSymbol EXCEPT
        !.ID = res.id, !.name = res.name, !.declLine = res.line,
        !.isRecordMember = res.isCXXClassMember,
        !.access = IF res.isCXXClassMember THEN res.access ELSE "none",
        !.target = AliasTargetOf(res),
        !.parentNamespaceID = res.parent]

----------------------------------------------------------------------------
(* EnumMatcher::run and NamespaceMatcher::run *)

EnumIgnored(res, c) ==
    res.name = "" \/ res.isInIgnoreList \/ res.isInAnonymousNamespace

EnumSymbolOf(res) ==
    [EmptyEnumSymbol EXCEPT
        !.ID = res.id,
        !.name = IF res.parentRecordName # "" THEN res.parentRecordName \o "::" \o res.name
                 ELSE res.name,
        !.declLine = res.line, !.type = res.kindName,
        !.parentNamespaceID = res.parent]

NamespaceIgnored(res, c) ==
    res.name = "" \/ res.isInIgnoreList \/ res.isInAnonymousNamespace

NamespaceSymbolOf(res) ==
    [EmptyNamespaceSymbol EXCEPT
        !.ID = res.id, !.name = res.name, !.declLine = res.line,
        !.parentNamespaceID = res.parent]

----------------------------------------------------------------------------
(* RecordMatcher::run *)

\* a member declaration of a record: a method, or one of decls()
Member(class, id, access) ==
    [declClass |-> class, id |-> id, access |-> access, isImplicit |-> FALSE,
     isInIgnoreList |-> FALSE, isInAnonymousNamespace |-> FALSE,
     name |-> "m", type |-> PlainType("int", NoDecl), defaultValue |-> "",
     isAnonymousStructOrUnion |-> FALSE]

MemberSkipped(m, c) ==
    \/ m.isImplicit
    \/ m.isInIgnoreList
    \/ m.isInAnonymousNamespace
    \/ (m.access = "private" /\ c.ignorePrivateMembers)

RecordIgnored(res, c) ==
    \/ ~res.isCompleteDefinition
    \/ ~res.validRange
    \/ res.isInIgnoreList
    \/ res.isInAnonymousNamespace
    \/ (res.name = "" /\ res.typedefName = "")
    \/ (res.isSpecialization /\ ~res.typeAsWritten)

\* "T", "U", ... "Z", then "A" ... "Z" over again
FallbackName(n) ==
    IF n < 7 THEN SubSeq("TUVWXYZ", n + 1, n + 1)
    ELSE SubSeq("ABCDEFGHIJKLMNOPQRSTUVWXYZ", ((n - 7) % 26) + 1, ((n - 7) % 26) + 1)

\* the rendered form of a "<...>" group inside a template argument
ElideAngles(s) ==
    LET lt == Positions(s, "<")
        gt == Positions(s, ">")
    IN  IF lt = {} \/ {j \in gt : j > Min(lt)} = {} THEN s
        ELSE SubSeq(s, 1, Min(lt) - 1) \o "<...>" \o SubSeq(s, Max(gt) + 1, Len(s))

\* templateArgsToStrings: args[i] = [printed, isType, paramName, index];
\* used counts the fallback names handed out so far
RECURSIVE templateArgsToStrings(_, _, _)
templateArgsToStrings(args, record, used) ==
    IF Len(args) = 0 THEN <<>>
    ELSE LET arg == Head(args)
             found == IF ~arg.isType THEN ""
                      ELSE IF arg.paramName # "" THEN arg.paramName
                      ELSE IF arg.index < Len(record.templateParams)
                           THEN record.templateParams[arg.index + 1].name
                           ELSE ""
         IN  IF StartsWithAt(arg.printed, "type-parameter-", 1)
             THEN IF found # ""
                  THEN <<found>> \o templateArgsToStrings(Tail(args), record, used)
                  ELSE <<FallbackName(used)>>
                       \o templateArgsToStrings(Tail(args), record, used + 1)
             ELSE <<ElideAngles(arg.printed)>>
                  \o templateArgsToStrings(Tail(args), record, used)

\* getRecordProto: "<template prelude> <type> <name>"
getRecordProto(c) ==
    (IF Len(c.templateParams) = 0 THEN ""
     ELSE "template <"
          \o JoinStrings([i \in 1..Len(c.templateParams) |->
                       "typename " \o c.templateParams[i].name], ", ")
          \o "> ")
    \o c.type \o " " \o c.name

\* a member variable, from a field or from a static VarDecl
MemberVariableOf(d, isStatic) ==
    [isStatic |-> isStatic, name |-> d.name, defaultValue |-> d.defaultValue,
     access |-> d.access,
     type |-> IF d.isAnonymousStructOrUnion \/ Contains(d.type.name, "anonymous ")
              THEN TypeRef("anonymous struct/union", NullID)
              ELSE TypeRef(d.type.name, getTypeSymbolID(d.type))]

SelectIDs(members, Keep(_)) ==
    LET kept == SelectSeq(members, Keep)
    IN  [i \in 1..Len(kept) |-> kept[i].id]

\* the access specifier as written in the source, AS_none when none was
getAccessSpecifierAsWritten(base, kindName) == base.access

\* CXXBaseSpecifier::getAccessSpecifier: the access used for semantic
\* analysis, never AS_none: where none is written a class derives privately,
\* a struct publicly
getAccessSpecifier(base, kindName) ==
    IF base.access # "none" THEN base.access
    ELSE IF kindName = "class" THEN "private"
    ELSE "public"

RecordSymbolOf(res, c) ==
    LET named == IF res.name = "" THEN res.typedefName ELSE res.name
        name1 == IF res.parentRecordName # "" THEN res.parentRecordName \o "::" \o named
                 ELSE named
        IsTemplate(d) == d.declClass = "FunctionTemplateDecl"
        IsAlias(d)    == d.declClass \in {"UsingShadowDecl", "UsingDecl", "TypeAliasDecl"}
        KeptMethod(m) == ~MemberSkipped(m, c)
        KeptTemplate(d) == IsTemplate(d) /\ ~MemberSkipped(d, c)
        KeptAlias(d)  == IsAlias(d) /\ ~MemberSkipped(d, c)
        KeptBase(b)   == b.hasRecordDecl
        KeptVar(d)    == ~(d.access = "private" /\ c.ignorePrivateMembers)
        KeptStatic(d) == d.declClass = "VarDecl" /\ KeptVar(d)
        bases   == SelectSeq(res.bases, KeptBase)
        fields  == SelectSeq(res.fields, KeptVar)
        statics == SelectSeq(res.decls, KeptStatic)
        c1 == [EmptyRecordSymbol EXCEPT
                 !.ID = res.id, !.name = name1, !.declLine = res.line,
                 !.methodIDs = SelectIDs(res.methods, KeptMethod)
                               \o SelectIDs(res.decls, KeptTemplate),
                 !.aliasIDs = SelectIDs(res.decls, KeptAlias),
                 !.baseRecords =
                     [i \in 1..Len(bases) |->
                        [id |-> bases[i].id,
                         access |-> getAccessSpecifier(bases[i], res.kindName),
                         name |-> IF bases[i].isInStdNamespace
                                  THEN "std::" \o bases[i].name ELSE bases[i].name]],
                 !.type = res.kindName,
                 !.templateParams =
                     [i \in 1..Len(res.templateParams) |->
                        RecordTemplateParamOf(res.templateParams[i])]]
        c2 == IF res.isSpecialization
              THEN [c1 EXCEPT !.name =
                       @ \o "<" \o JoinStrings(templateArgsToStrings(res.templateArgs, c1, 0), ", ")
                         \o ">"]
              ELSE c1
    IN  [c2 EXCEPT
            !.proto = getRecordProto(c2),
            !.vars = [i \in 1..Len(fields) |-> MemberVariableOf(fields[i], FALSE)]
                     \o [i \in 1..Len(statics) |-> MemberVariableOf(statics[i], TRUE)],
            !.parentNamespaceID = res.parent]

----------------------------------------------------------------------------
(* The post-passes of the Indexer, as functions of the Index *)

\* the child list of namespace ns that holds the symbols of Database k
ChildList(ns, k) ==
    CASE k = "records"    -> ns.records
      [] k = "enums"      -> ns.enums
      [] k = "namespaces" -> ns.namespaces
      [] k = "aliases"    -> ns.usings

ChildKinds == {"records", "enums", "namespaces", "aliases"}

\* the iteration orders an unordered_map with these keys can have
RECURSIVE Orders(_)
Orders(S) ==
    IF S = {} THEN {<<>>}
    ELSE UNION {{<<x>> \o rest : rest \in Orders(S \ {x})} : x \in S}

\* a sibling taken for a child
isSibling(ns, s) == s.parentNamespaceID = ns.parentNamespaceID

isChild(ns, s) == s.parentNamespaceID = ns.ID

\* the IDs appended to one child list of ns: the children among db, in
\* iteration order
ChildIDs(ns, db, order) ==
    LET IsKid(k) == isChild(ns, db[k])
        kids == SelectSeq(order, IsKid)
    IN  [i \in 1..Len(kids) |-> db[kids[i]].ID]

\* the child lists cleared before they are filled
resolveNamespacesAfresh(idx, order) ==
    [idx EXCEPT !.namespaces =
        [k \in DOMAIN idx.namespaces |->
            [idx.namespaces[k] EXCEPT
                !.records    = ChildIDs(idx.namespaces[k], idx.records, order.records),
                !.enums      = ChildIDs(idx.namespaces[k], idx.enums, order.enums),
                !.namespaces = ChildIDs(idx.namespaces[k], idx.namespaces, order.namespaces),
                !.usings     = ChildIDs(idx.namespaces[k], idx.aliases, order.aliases)]]]

\* order[k] is the iteration order of Database k during the pass
resolveNamespaces(idx, order) ==
    [idx EXCEPT !.namespaces =
        [k \in DOMAIN idx.namespaces |->
            [idx.namespaces[k] EXCEPT
                !.records    = @ \o ChildIDs(idx.namespaces[k], idx.records, order.records),
                !.enums      = @ \o ChildIDs(idx.namespaces[k], idx.enums, order.enums),
                !.namespaces = @ \o ChildIDs(idx.namespaces[k], idx.namespaces,
                                             order.namespaces),
                !.usings     = @ \o ChildIDs(idx.namespaces[k], idx.aliases,
                                             order.aliases)]]]

AccessPrefix(access) ==
    CASE access = "public"    -> "public "
      [] access = "private"   -> "private "
      [] access = "protected" -> "protected "
      [] OTHER                -> ""

\* the separator never written
RECURSIVE BaseListUnseparated(_, _)
BaseListUnseparated(bases, count) ==
    IF Len(bases) = 0 THEN ""
    ELSE AccessPrefix(Head(bases).access) \o Head(bases).name
         \o BaseListUnseparated(Tail(bases), count + 1)

RECURSIVE BaseList(_, _)
BaseList(bases, count) ==
    IF Len(bases) = 0 THEN ""
    ELSE (IF count > 0 THEN ", " ELSE "")
         \o AccessPrefix(Head(bases).access) \o Head(bases).name
         \o BaseList(Tail(bases), count + 1)

\* the records without a base dropped from the Database
updateRecordNamesOfDerived(idx) ==
    [idx EXCEPT !.records =
        [k \in {r \in DOMAIN idx.records : Len(idx.records[r].baseRecords) > 0} |->
            [idx.records[k] EXCEPT
                !.proto = @ \o " : " \o BaseList(idx.records[k].baseRecords, 0)]]]

updateRecordNames(idx) ==
    [idx EXCEPT !.records =
        [k \in DOMAIN idx.records |->
            IF Len(idx.records[k].baseRecords) > 0
            THEN [idx.records[k] EXCEPT
                     !.proto = @ \o " : " \o BaseList(idx.records[k].baseRecords, 0)]
            ELSE idx.records[k]]]

\* the lambda of updateMemberFunctions: for i = from, from + 1, ... replace
\* "type-parameter-0-<i>" by the name of the record's i-th template parameter
RECURSIVE fixTypeParam(_, _, _)
fixTypeParam(s, templateParams, from) ==
    IF from >= Len(templateParams) THEN s
    ELSE fixTypeParam(replaceAll(s, "type-parameter-0-" \o ToString(from),
                                 templateParams[from + 1].name),
                      templateParams, from + 1)

\* the proto rewritten as one string, the name and the offsets left as they are
renameInProto(f, c) ==
    [f EXCEPT !.proto = fixTypeParam(@, c.templateParams, 0)]

\* the return type's name rewritten along with the proto
updateMemberFunctionAndReturnType(f, c) ==
    [renameInProto(f, c) EXCEPT !.returnType.name = fixTypeParam(@, c.templateParams, 0)]

\* the body of the inner loop: function f seen as a method of record c
updateMemberFunction(f, c) ==
    LET templatePart == fixTypeParam(SubSeq(f.proto, 1, f.postTemplate), c.templateParams, 0)
        preNamePart  == fixTypeParam(SubSeq(f.proto, f.postTemplate + 1, f.nameStart),
                                     c.templateParams, 0)
        restPart     == fixTypeParam(SubSeq(f.proto, f.nameStart + 1, Len(f.proto)),
                                     c.templateParams, 0)
        name         == fixTypeParam(f.name, c.templateParams, 0)
        newProto     == templatePart \o preNamePart \o restPart
        f1 == IF newProto # f.proto
              THEN [f EXCEPT !.proto = newProto, !.name = name,
                             !.postTemplate = Len(templatePart),
                             !.nameStart = Len(templatePart) + Len(preNamePart)]
              ELSE f
    IN  [f1 EXCEPT !.params =
            [i \in 1..Len(f1.params) |->
                [f1.params[i] EXCEPT
                    !.type.name = fixTypeParam(@, c.templateParams, 0),
                    !.defaultValue = fixTypeParam(@, c.templateParams, 0)]]]

\* the methodIDs of record c from position i on
RECURSIVE updateMethodsOf(_, _, _)
updateMethodsOf(functions, c, i) ==
    IF i > Len(c.methodIDs) THEN functions
    ELSE IF ~contains(functions, c.methodIDs[i]) THEN updateMethodsOf(functions, c, i + 1)
    ELSE updateMethodsOf(
             [functions EXCEPT ![c.methodIDs[i]] = updateMemberFunction(@, c)], c, i + 1)

\* the records in iteration order
RECURSIVE updateMethodsOfAll(_, _, _)
updateMethodsOfAll(functions, records, order) ==
    IF Len(order) = 0 THEN functions
    ELSE updateMethodsOfAll(updateMethodsOf(functions, records[Head(order)], 1),
                            records, Tail(order))

updateMemberFunctions(idx, order) ==
    [idx EXCEPT !.functions = updateMethodsOfAll(idx.functions, idx.records, order.records)]

Orphaned(idx, f) == f.isRecordMember /\ ~contains(idx.records, f.parentNamespaceID)

\* the isRecordMember test left out
pruneParentless(idx) ==
    LET toBePruned == {k \in DOMAIN idx.functions :
                          ~contains(idx.records, idx.functions[k].parentNamespaceID)}
    IN  [idx EXCEPT !.functions = [k \in DOMAIN idx.functions \ toBePruned |-> @[k]]]

\* the pruned IDs struck from every record's methodIDs as well
pruneMethodsAndRefs(idx) ==
    LET toBePruned == {k \in DOMAIN idx.functions : Orphaned(idx, idx.functions[k])}
        Kept(id) == id \in DOMAIN idx.functions \ toBePruned
    IN  [idx EXCEPT
            !.functions = [k \in DOMAIN idx.functions \ toBePruned |-> @[k]],
            !.records = [k \in DOMAIN idx.records |->
                            [@[k] EXCEPT !.methodIDs = SelectSeq(@, Kept)]]]

pruneMethods(idx) ==
    LET toBePruned == {k \in DOMAIN idx.functions : Orphaned(idx, idx.functions[k])}
    IN  [idx EXCEPT !.functions = [k \in DOMAIN idx.functions \ toBePruned |-> @[k]]]

\* functions consulted as well
haveIdOrFunction(idx, id) ==
    \/ contains(idx.records, id) \/ contains(idx.enums, id) \/ contains(idx.aliases, id)
    \/ contains(idx.functions, id)

\* every Database consulted
haveIdAnywhere(idx, id) == \E k \in Kinds : contains(idx[k], id)

haveId(idx, id) ==
    contains(idx.records, id) \/ contains(idx.enums, id) \/ contains(idx.aliases, id)

\* an id that is a key of functions taken to resolve as well
pruneTypeRefUnlessFunction(idx, t) ==
    IF haveId(idx, t.id) \/ contains(idx.functions, t.id) THEN t
    ELSE [t EXCEPT !.id = NullID]

\* the name given up with the id
pruneTypeRefWhole(idx, t) == IF haveId(idx, t.id) THEN t ELSE NoTypeRef

pruneTypeRef(idx, t) == IF haveId(idx, t.id) THEN t ELSE [t EXCEPT !.id = NullID]

\* the loops over the records and the aliases left out
pruneTypeRefsOfFunctions(idx) ==
    [idx EXCEPT
        !.functions =
            [k \in DOMAIN idx.functions |->
                [idx.functions[k] EXCEPT
                    !.returnType = pruneTypeRef(idx, @),
                    !.params = [i \in 1..Len(@) |->
                                   [@[i] EXCEPT !.type = pruneTypeRef(idx, @)]]]]]

pruneTypeRefs(idx) ==
    [idx EXCEPT
        !.functions =
            [k \in DOMAIN idx.functions |->
                [idx.functions[k] EXCEPT
                    !.returnType = pruneTypeRef(idx, @),
                    !.params = [i \in 1..Len(@) |->
                                   [@[i] EXCEPT !.type = pruneTypeRef(idx, @)]]]],
        !.records =
            [k \in DOMAIN idx.records |->
                [idx.records[k] EXCEPT
                    !.vars = [i \in 1..Len(@) |->
                                 [@[i] EXCEPT !.type = pruneTypeRef(idx, @)]]]],
        !.aliases =
            [k \in DOMAIN idx.aliases |->
                [idx.aliases[k] EXCEPT !.target = pruneTypeRef(idx, @)]]]

----------------------------------------------------------------------------
(* The match callbacks, step by step *)

\* the Database a matcher writes to
KindOf(res) ==
    CASE res.matcher = "function"  -> "functions"
      [] res.matcher = "record"    -> "records"
      [] res.matcher = "enum"      -> "enums"
      [] res.matcher = "namespace" -> "namespaces"
      [] res.matcher = "using"     -> "aliases"

\* the returns a callback takes before it counts the match
EarlyReturn(res) ==
    CASE res.matcher = "function" -> FunctionEarlyReturn(res)
      [] res.matcher = "using"    -> UsingEarlyReturn(res)
      [] OTHER                    -> FALSE

\* the returns a callback takes after counting and before building the ID
Ignored(res, c) ==
    CASE res.matcher = "function"  -> FunctionIgnored(res, c)
      [] res.matcher = "record"    -> RecordIgnored(res, c)
      [] res.matcher = "enum"      -> EnumIgnored(res, c)
      [] res.matcher = "namespace" -> NamespaceIgnored(res, c)
      [] res.matcher = "using"     -> UsingIgnored(res, c)

\* the symbol a callback hands to update()
SymbolOf(res, c) ==
    CASE res.matcher = "function"  -> FunctionSymbolOf(res)
      [] res.matcher = "record"    -> RecordSymbolOf(res, c)
      [] res.matcher = "enum"      -> EnumSymbolOf(res)
      [] res.matcher = "namespace" -> NamespaceSymbolOf(res)
      [] res.matcher = "using"     -> AliasSymbolOf(res)

\* a counter that is never bumped
IncrementNever(n) == n

\* a counter that is assigned instead of bumped
IncrementSet(n) == 1

\* numMatches++
Increment(n) == n + 1

\* the gate: an ID the Database already holds is skipped
Skips(db, id) == contains(db, id)

----------------------------------------------------------------------------
(* The declarations of the indexed project: what the translation units hold *)

\* namespace ns { namespace detail { } }
NsOuter == [Node EXCEPT !.matcher = "namespace", !.id = 1, !.name = "ns"]
NsInner == [Node EXCEPT !.matcher = "namespace", !.id = 2, !.name = "detail", !.parent = 1]

\* namespace ns { template <typename T> struct Foo : public Bar {
\*     T get(); Foo() = delete; private: void secret(); Bar* p; public: using Bar::run; }; }
RecFoo ==
    [Node EXCEPT
        !.matcher = "record", !.id = 11, !.name = "Foo", !.parent = 1,
        !.templateParams = <<[ParmDecl("TemplateTypeParmDecl", "T") EXCEPT
                                 !.declaredWithTypename = TRUE]>>,
        !.methods = <<Member("CXXMethodDecl", 31, "public"),
                      Member("CXXConstructorDecl", 32, "public"),
                      Member("CXXMethodDecl", 33, "private")>>,
        !.decls = <<Member("UsingDecl", 42, "public")>>,
        !.bases = <<[hasRecordDecl |-> TRUE, id |-> 12, access |-> "public",
                     name |-> "Bar", isInStdNamespace |-> FALSE]>>,
        !.fields = <<[Member("FieldDecl", NullID, "private") EXCEPT
                         !.name = "p", !.type = PointerType("Bar *", TagDecl(12, NullID))]>>]

\* namespace ns { struct Bar { void run(); }; }
RecBar ==
    [Node EXCEPT
        !.matcher = "record", !.id = 12, !.name = "Bar", !.parent = 1,
        !.methods = <<Member("CXXMethodDecl", 35, "public")>>]

\* a record of an ignored file
RecHidden == [Node EXCEPT !.matcher = "record", !.id = 13, !.name = "Hidden",
                          !.isInIgnoreList = TRUE]

\* struct Impl and enum Mode, declared in the private part of Foo
RecImpl ==
    [Node EXCEPT
        !.matcher = "record", !.id = 15, !.name = "Impl", !.parent = 1,
        !.parentRecordName = "Foo", !.isCXXClassMember = TRUE, !.access = "private"]
EnMode ==
    [Node EXCEPT
        !.matcher = "enum", !.id = 23, !.name = "Mode", !.parent = 1,
        !.parentRecordName = "Foo", !.kindName = "enum",
        !.isCXXClassMember = TRUE, !.access = "private"]

\* T Foo<T>::get(), as the class body declares it and as defined out of line
FnGet ==
    [Node EXCEPT
        !.matcher = "function", !.id = 31, !.name = "get", !.parent = 11,
        !.isCXXClassMember = TRUE, !.access = "public",
        !.returnType = PlainType("type-parameter-0-0", NoDecl)]
FnGetDef == [FnGet EXCEPT !.line = 2]

\* Foo() = delete
FnDeleted ==
    [Node EXCEPT
        !.matcher = "function", !.id = 32, !.name = "Foo<T>", !.parent = 11,
        !.isCXXClassMember = TRUE, !.access = "public", !.isCtorOrDtor = TRUE,
        !.isDeletedAsWritten = TRUE]

\* void Foo<T>::secret(), private
FnSecret ==
    [Node EXCEPT
        !.matcher = "function", !.id = 33, !.name = "secret", !.parent = 11,
        !.isCXXClassMember = TRUE, !.access = "private"]

\* Bar Hidden::make(Foo<int>& x): a method, defined in an indexed file, of a
\* record that is ignored
FnOrphan ==
    [Node EXCEPT
        !.matcher = "function", !.id = 34, !.name = "make", !.parent = 13,
        !.isCXXClassMember = TRUE, !.access = "public",
        !.returnType = PlainType("Bar", TagDecl(12, NullID)),
        !.params = <<[name |-> "x", defaultValue |-> "",
                      type |-> ReferenceType("Foo<int> &", TagDecl(14, 11))]>>]

\* void Bar::run()
FnRun ==
    [Node EXCEPT
        !.matcher = "function", !.id = 35, !.name = "run", !.parent = 12,
        !.isCXXClassMember = TRUE, !.access = "public"]

\* namespace ns { Bar build(); }: a free function
FnFree ==
    [Node EXCEPT
        !.matcher = "function", !.id = 37, !.name = "build", !.parent = 1,
        !.returnType = PlainType("Bar", TagDecl(12, NullID))]

\* a deduction guide, a function of an ignored file, one without a valid source
\* range
FnGuide   == [Node EXCEPT !.matcher = "function", !.id = 36, !.isDeductionGuide = TRUE]
FnIgnored == [Node EXCEPT !.matcher = "function", !.id = 36, !.isInIgnoreList = TRUE]
FnInvalid == [Node EXCEPT !.matcher = "function", !.id = 36, !.validRange = FALSE]

\* namespace ns::detail { enum Color { }; } and an enum without a name
EnColor   == [Node EXCEPT !.matcher = "enum", !.id = 21, !.name = "Color", !.parent = 2,
                          !.kindName = "enum"]
EnUnnamed == [Node EXCEPT !.matcher = "enum", !.id = 22, !.name = "", !.kindName = "enum"]

\* namespace ns { using FooRef = Foo<int>&; }
AlFooRef ==
    [Node EXCEPT
        !.matcher = "using", !.id = 41, !.name = "FooRef", !.parent = 1,
        !.declClass = "TypeAliasDecl",
        !.underlying = ReferenceType("Foo<int> &", TagDecl(14, 11))]

\* using Bar::run; inside Foo
AlRun ==
    [Node EXCEPT
        !.matcher = "using", !.id = 42, !.name = "run", !.parent = 11,
        !.declClass = "UsingDecl", !.isCXXClassMember = TRUE, !.access = "public",
        !.shadows = <<[name |-> "ns::Bar::run", id |-> 35]>>]

\* what else the using matcher is handed: a declaration that is no alias, and
\* an alias local to a function
AlOther == [Node EXCEPT !.matcher = "using", !.id = 43, !.declClass = "VarDecl"]
AlLocal == [Node EXCEPT !.matcher = "using", !.id = 43, !.declClass = "TypeAliasDecl",
                        !.isFunctionLocal = TRUE]

Decls ==
    {NsOuter, NsInner, RecFoo, RecBar, RecHidden, RecImpl, EnMode,
     FnGet, FnGetDef, FnDeleted, FnSecret, FnOrphan, FnRun, FnFree,
     FnGuide, FnIgnored, FnInvalid,
     EnColor, EnUnnamed, AlFooRef, AlRun, AlOther, AlLocal}

----------------------------------------------------------------------------
(* The run: workers in the match callbacks, then the post-passes *)

Stages == <<"indexing", "pruneMethods", "resolveNamespaces", "updateRecordNames",
            "updateMemberFunctions", "pruneTypeRefs", "done">>

\* the stage after stage st
StageAfter(st) == Stages[(CHOOSE i \in 1..Len(Stages) : Stages[i] = st) + 1]

NoHistory ==
    /\ reserves = EmptyIndex
    /\ firstValue = EmptyIndex
    /\ incs = [k \in Kinds |-> 0]

Init ==
    /\ cfg \in [ignorePrivateMembers : BOOLEAN]
    /\ index = EmptyIndex
    /\ numMatches = [k \in Kinds |-> 0]
    /\ pc = [w \in Workers |-> "idle"]
    /\ cur = [w \in Workers |-> Node]
    /\ handled = 0
    /\ stage = "indexing"
    /\ NoHistory

\* MatchCallback::run is entered with a node: either one of the returns that
\* come before the counter, or the counter
Match(w, res) ==
    /\ stage = "indexing"
    /\ pc[w] = "idle"
    /\ handled < MaxDecls
    /\ handled' = handled + 1
    /\ cur' = [cur EXCEPT ![w] = res]
    /\ IF EarlyReturn(res)
       THEN /\ pc' = [pc EXCEPT ![w] = "return"]
            /\ UNCHANGED <<numMatches, incs>>
       ELSE /\ numMatches' = [numMatches EXCEPT ![KindOf(res)] = Increment(@)]
            /\ incs' = [incs EXCEPT ![KindOf(res)] = @ + 1]
            /\ pc' = [pc EXCEPT ![w] = "gate"]
    /\ UNCHANGED <<cfg, index, stage, reserves, firstValue>>

\* the callback returns without having touched the Index
Return(w) ==
    /\ pc[w] = "return"
    /\ pc' = [pc EXCEPT ![w] = "idle"]
    /\ cur' = [cur EXCEPT ![w] = Node]
    /\ UNCHANGED <<cfg, index, numMatches, handled, stage, reserves, firstValue, incs>>

\* the filter, buildID and contains(ID)
Gate(w) ==
    /\ pc[w] = "gate"
    /\ IF Ignored(cur[w], cfg) \/ Skips(index[KindOf(cur[w])], cur[w].id)
       THEN /\ pc' = [pc EXCEPT ![w] = "idle"]
            /\ cur' = [cur EXCEPT ![w] = Node]
       ELSE /\ pc' = [pc EXCEPT ![w] = "reserve"]
            /\ UNCHANGED cur
    /\ UNCHANGED <<cfg, index, numMatches, handled, stage, reserves, firstValue, incs>>

\* reserve(ID)
Reserve(w) ==
    /\ pc[w] = "reserve"
    /\ index' = [index EXCEPT ![KindOf(cur[w])] =
                    reserve(@, cur[w].id, EmptySymbol(KindOf(cur[w])))]
    /\ reserves' = [reserves EXCEPT ![KindOf(cur[w])] =
                       MapPut(@, cur[w].id,
                              IF cur[w].id \in DOMAIN @ THEN @[cur[w].id] + 1 ELSE 1)]
    /\ pc' = [pc EXCEPT ![w] = "update"]
    /\ UNCHANGED <<cfg, numMatches, cur, handled, stage, firstValue, incs>>

\* the callback returns after reserve(ID) without reaching update
UpdateSkipped(w) ==
    /\ pc[w] = "update"
    /\ pc' = [pc EXCEPT ![w] = "idle"]
    /\ cur' = [cur EXCEPT ![w] = Node]
    /\ UNCHANGED <<cfg, index, numMatches, handled, stage, reserves, firstValue, incs>>

\* the symbol is filled out and handed to update(ID, symbol)
Update(w) ==
    /\ pc[w] = "update"
    /\ LET k == KindOf(cur[w])
           v == SymbolOf(cur[w], cfg)
       IN  /\ index' = [index EXCEPT ![k] = update(@, cur[w].id, v)]
           /\ firstValue' = IF cur[w].id \in DOMAIN firstValue[k] THEN firstValue
                            ELSE [firstValue EXCEPT ![k] = MapPut(@, cur[w].id, v)]
    /\ pc' = [pc EXCEPT ![w] = "idle"]
    /\ cur' = [cur EXCEPT ![w] = Node]
    /\ UNCHANGED <<cfg, numMatches, handled, stage, reserves, incs>>

Drained == \A w \in Workers : pc[w] = "idle"

\* execute returns while workers are still in their callbacks
JoinEarly ==
    /\ stage = "indexing"
    /\ stage' = StageAfter(stage)
    /\ UNCHANGED <<cfg, index, numMatches, pc, cur, handled, reserves, firstValue, incs>>

\* ParallelExecutor::execute returns once every worker is done
Join ==
    /\ stage = "indexing"
    /\ Drained
    /\ stage' = StageAfter(stage)
    /\ UNCHANGED <<cfg, index, numMatches, pc, cur, handled, reserves, firstValue, incs>>

IterationOrders(idx) ==
    {[k \in Kinds |-> o[k]] :
        o \in [records : Orders(DOMAIN idx.records), enums : Orders(DOMAIN idx.enums),
               namespaces : Orders(DOMAIN idx.namespaces),
               aliases : Orders(DOMAIN idx.aliases), functions : {<<>>}]}

Pass(name, result) ==
    /\ stage = name
    /\ index' = result
    /\ stage' = StageAfter(stage)
    /\ UNCHANGED <<cfg, numMatches, pc, cur, handled, reserves, firstValue, incs>>

PruneMethods == Pass("pruneMethods", pruneMethods(index))

ResolveNamespaces ==
    \E order \in IterationOrders(index) :
        Pass("resolveNamespaces", resolveNamespaces(index, order))

UpdateRecordNames == Pass("updateRecordNames", updateRecordNames(index))

UpdateMemberFunctions ==
    \E order \in IterationOrders(index) :
        Pass("updateMemberFunctions", updateMemberFunctions(index, order))

PruneTypeRefs == Pass("pruneTypeRefs", pruneTypeRefs(index))

Next ==
    \/ \E w \in Workers : \E res \in Decls : Match(w, res)
    \/ \E w \in Workers : Return(w)
    \/ \E w \in Workers : Gate(w)
    \/ \E w \in Workers : Reserve(w)
    \/ \E w \in Workers : Update(w)
    \/ Join
    \/ PruneMethods
    \/ ResolveNamespaces
    \/ UpdateRecordNames
    \/ UpdateMemberFunctions
    \/ PruneTypeRefs

Spec == Init /\ [][Next]_vars

----------------------------------------------------------------------------
(* The post-passes on their own: from any Index the callbacks can leave *)

\* symbols in the Index when the workers have drained
MaxSymbols == 6

\* the nodes of D that write to Database k
OfKind(D, k) == {d \in D : KindOf(d) = k}

\* the Index the callbacks leave when each node of D is seen once, no two
\* nodes of D sharing an ID
IndexOf(D, c) ==
    [k \in Kinds |->
        [id \in {d.id : d \in OfKind(D, k)} |->
            SymbolOf(CHOOSE d \in OfKind(D, k) : d.id = id, c)]]

Indexable(D, c) ==
    /\ \A d \in D : ~EarlyReturn(d) /\ ~Ignored(d, c)
    /\ \A d, e \in D : (KindOf(d) = KindOf(e) /\ d.id = e.id) => d = e

InitPost ==
    /\ cfg \in [ignorePrivateMembers : BOOLEAN]
    /\ \E D \in SUBSET Decls :
          /\ Cardinality(D) <= MaxSymbols
          /\ Indexable(D, cfg)
          /\ index = IndexOf(D, cfg)
          /\ numMatches = [k \in Kinds |-> Cardinality(OfKind(D, k))]
    /\ pc = [w \in Workers |-> "idle"]
    /\ cur = [w \in Workers |-> Node]
    /\ handled = 0
    /\ stage = "pruneMethods"
    /\ reserves = [k \in Kinds |-> [id \in DOMAIN index[k] |-> 1]]
    /\ firstValue = index
    /\ incs = numMatches

NextPost ==
    \/ PruneMethods
    \/ ResolveNamespaces
    \/ UpdateRecordNames
    \/ UpdateMemberFunctions
    \/ PruneTypeRefs

SpecPost == InitPost /\ [][NextPost]_vars

----------------------------------------------------------------------------
(* updateMemberFunctions on one class template and one of its methods, for the
   names the template's parameters may have *)

MaxTemplateParams == 2

\* the names of a template parameter; "" is a parameter without a name
ParamNames == {"T", "U", ""}

SeqsUpTo(S, n) == UNION {[1..m -> S] : m \in 0..n}

\* template <...> struct Foo with the parameters named as in names
FooOf(names) ==
    [RecFoo EXCEPT
        !.templateParams =
            [i \in 1..Len(names) |->
                [ParmDecl("TemplateTypeParmDecl", names[i]) EXCEPT
                    !.declaredWithTypename = TRUE]]]

\* the types as the front-end prints them in a definition outside the class
RawTypes == {"void", "type-parameter-0-0", "const type-parameter-0-1 &",
             "type-parameter-0-10"}

\* the methods of Foo: a plain method, a conversion operator, a constructor;
\* with or without a parameter, with or without template parameters of its own
MethodsOfFoo ==
    {[FnGet EXCEPT
         !.name = n.name, !.isCtorOrDtor = n.ctor,
         !.returnType = PlainType(t, NoDecl),
         !.params = ps, !.templateParams = tps] :
        n \in {[name |-> "get", ctor |-> FALSE],
               [name |-> "operator type-parameter-0-0", ctor |-> FALSE],
               [name |-> "Foo<type-parameter-0-0>", ctor |-> TRUE]},
        t \in RawTypes,
        ps \in {<<>>,
                <<[name |-> "x", defaultValue |-> "type-parameter-0-0()",
                   type |-> PlainType("type-parameter-0-1", NoDecl)]>>},
        tps \in {<<>>, <<ParmDecl("TemplateTypeParmDecl", "V")>>}}

InitProto ==
    /\ cfg = [ignorePrivateMembers |-> FALSE]
    /\ \E names \in SeqsUpTo(ParamNames, MaxTemplateParams) : \E m \in MethodsOfFoo :
          index = IndexOf({FooOf(names), m}, cfg)
    /\ numMatches = [k \in Kinds |-> Size(index[k])]
    /\ pc = [w \in Workers |-> "idle"]
    /\ cur = [w \in Workers |-> Node]
    /\ handled = 0
    /\ stage = "updateMemberFunctions"
    /\ reserves = [k \in Kinds |-> [id \in DOMAIN index[k] |-> 1]]
    /\ firstValue = index
    /\ incs = numMatches

NextProto ==
    \/ UpdateMemberFunctions
    \/ PruneTypeRefs

SpecProto == InitProto /\ [][NextProto]_vars

----------------------------------------------------------------------------
(* shouldBeIgnored: the AST matcher every getMatcher() puts under unless(),
   so that a declaration it accepts is never handed to a match callback *)

MaxIgnoreEntries == 2

\* a path as the sequence of its components; the text of an absolute path and
\* of a relative one
AbsoluteText(path) == "/" \o JoinStrings(path, "/")

RelativeText(path) == IF Len(path) = 0 THEN "." ELSE JoinStrings(path, "/")

\* the number of leading components path and base have in common
RECURSIVE CommonPrefix(_, _)
CommonPrefix(path, base) ==
    IF Len(path) = 0 \/ Len(base) = 0 \/ Head(path) # Head(base) THEN 0
    ELSE 1 + CommonPrefix(Tail(path), Tail(base))

\* the file name as written, the root left where it is
absolute(path, base) == AbsoluteText(path)

\* std::filesystem::relative(path, base).string(): ".." for every component of
\* base below the common prefix, then the rest of path
relative(path, base) ==
    LET n == CommonPrefix(path, base)
    IN  RelativeText([i \in 1..(Len(base) - n) |-> ".."]
                     \o SubSeq(path, n + 1, Len(path)))

\* a declaration context: a namespace (anonymous or named) or a record
Context(kind, name) == [kind |-> kind, name |-> name, anonymous |-> name = ""]

\* the walk up the declaration contexts, innermost first
isEnclosingNamespaceInList(contexts, list) ==
    \E i \in 1..Len(contexts) :
        /\ contexts[i].kind = "namespace"
        /\ ~contexts[i].anonymous
        /\ \E j \in 1..Len(list) : Contains(contexts[i].name, list[j])

\* the file test on the file name as written
PathListedAbsolute(decl, c) ==
    \E j \in 1..Len(c.ignorePaths) :
        Contains(absolute(decl.file, c.rootDir), c.ignorePaths[j])

\* the file test alone: some entry of ignorePaths is in the relative file name
PathListed(decl, c) ==
    \E j \in 1..Len(c.ignorePaths) :
        Contains(relative(decl.file, c.rootDir), c.ignorePaths[j])

\* the namespace test skipped whenever the file test cannot say yes
shouldBeIgnored(decl, c) ==
    IF Len(c.ignorePaths) = 0 THEN FALSE
    ELSE IF ~decl.validLoc THEN FALSE
    ELSE IF ~decl.hasFileEntry THEN FALSE
    ELSE IF PathListed(decl, c) THEN TRUE
    ELSE isEnclosingNamespaceInList(decl.contexts, c.ignoreNamespaces)

\* the declarations and the configurations the matcher is tried on
SourceFiles ==
    {<<"proj", "src", "bar.h">>, <<"proj", "third_party", "foo.h">>,
     <<"proj", "Third_Party", "foo.h">>, <<"third_party", "proj", "src", "bar.h">>,
     <<"usr", "include", "x.h">>}

ContextChains ==
    {<<>>,
     <<Context("namespace", "ns")>>,
     <<Context("namespace", "detail"), Context("namespace", "ns")>>,
     <<Context("record", "detail"), Context("namespace", "ns")>>,
     <<Context("namespace", ""), Context("namespace", "ns_detail_v2")>>}

LocatedDecls ==
    [file : SourceFiles, contexts : ContextChains,
     validLoc : BOOLEAN, hasFileEntry : BOOLEAN]

FilterConfigs ==
    [rootDir : {<<"proj">>, <<"third_party", "proj">>},
     ignorePaths : SeqsUpTo({"third_party/", "src/bar"}, MaxIgnoreEntries),
     ignoreNamespaces : {<<>>, <<"detail">>, <<"impl", "detail">>},
     ignorePrivateMembers : {FALSE}]

InitFilter ==
    /\ cfg \in FilterConfigs
    /\ \E decl \in LocatedDecls : cur = [w \in Workers |-> decl]
    /\ pc = [w \in Workers |-> "idle"]
    /\ index = EmptyIndex
    /\ numMatches = [k \in Kinds |-> 0]
    /\ handled = 0
    /\ stage = "indexing"
    /\ NoHistory

\* the matcher decides about the declaration worker w's traversal has reached
ShouldBeIgnored(w) ==
    /\ pc[w] = "idle"
    /\ pc' = [pc EXCEPT ![w] = IF shouldBeIgnored(cur[w], cfg) THEN "ignored" ELSE "matched"]
    /\ UNCHANGED <<cfg, index, numMatches, cur, handled, stage, reserves, firstValue, incs>>

NextFilter == \E w \in Workers : ShouldBeIgnored(w)

SpecFilter == InitFilter /\ [][NextFilter]_vars

----------------------------------------------------------------------------
(* Indexer::run from its first line: the compilation database is loaded before
   the matchers are set up and the executor is started *)

\* what JSONCompilationDatabase::loadFromFile can come back with
LoadResults == {"loaded", "missing", "unparsable"}

InitRun ==
    /\ cfg \in [ignorePrivateMembers : BOOLEAN, compileCommandsJSON : LoadResults]
    /\ index = EmptyIndex
    /\ numMatches = [k \in Kinds |-> 0]
    /\ pc = [w \in Workers |-> "idle"]
    /\ cur = [w \in Workers |-> Node]
    /\ handled = 0
    /\ stage = "setup"
    /\ NoHistory

\* the executor started whatever loadFromFile returned
LoadAndExecute ==
    /\ stage = "setup"
    /\ stage' = "indexing"
    /\ UNCHANGED <<cfg, index, numMatches, pc, cur, handled, reserves, firstValue, incs>>

\* cmpdb == nullptr: the error is logged and run() returns; otherwise the
\* executor is started
LoadCompilationDatabase ==
    /\ stage = "setup"
    /\ stage' = IF cfg.compileCommandsJSON # "loaded" THEN "failed" ELSE "indexing"
    /\ UNCHANGED <<cfg, index, numMatches, pc, cur, handled, reserves, firstValue, incs>>

NextRun ==
    \/ LoadCompilationDatabase
    \/ Next

SpecRun == InitRun /\ [][NextRun]_vars

----------------------------------------------------------------------------
(* A fixed set of translation units, one per worker, each walked in AST order *)

\* Bar build(int n) declared in one header, Bar build(int count) in another;
\* namespace ns reopened further down in the second header
FnFreeA ==
    [FnFree EXCEPT !.params = <<[name |-> "n", defaultValue |-> "",
                                 type |-> PlainType("int", NoDecl)]>>]
FnFreeB ==
    [FnFree EXCEPT !.line = 7,
                   !.params = <<[name |-> "count", defaultValue |-> "",
                                 type |-> PlainType("int", NoDecl)]>>]
NsOuterB == [NsOuter EXCEPT !.line = 3]

\* a.cpp includes the first header, b.cpp the second, foo.cpp the header of Foo
\* and defines Foo<T>::get
TranslationUnits ==
    {<<NsOuter, RecBar, FnFreeA>>,
     <<NsOuterB, FnFreeB>>,
     <<NsOuter, RecFoo, FnGet, FnGetDef>>}

InitTUs ==
    /\ cfg \in [ignorePrivateMembers : {FALSE}, tus : [Workers -> TranslationUnits]]
    /\ index = EmptyIndex
    /\ numMatches = [k \in Kinds |-> 0]
    /\ pc = [w \in Workers |-> "idle"]
    /\ cur = [w \in Workers |-> Node]
    /\ handled = [w \in Workers |-> 0]
    /\ stage = "indexing"
    /\ NoHistory

\* the traversal of worker w's translation unit reaches its next declaration
\* and enters the callback
Visit(w) ==
    /\ stage = "indexing"
    /\ pc[w] = "idle"
    /\ handled[w] < Len(cfg.tus[w])
    /\ handled' = [handled EXCEPT ![w] = @ + 1]
    /\ LET res == cfg.tus[w][handled[w] + 1]
       IN  /\ cur' = [cur EXCEPT ![w] = res]
           /\ IF EarlyReturn(res)
              THEN /\ pc' = [pc EXCEPT ![w] = "return"]
                   /\ UNCHANGED <<numMatches, incs>>
              ELSE /\ numMatches' = [numMatches EXCEPT ![KindOf(res)] = Increment(@)]
                   /\ incs' = [incs EXCEPT ![KindOf(res)] = @ + 1]
                   /\ pc' = [pc EXCEPT ![w] = "gate"]
    /\ UNCHANGED <<cfg, index, stage, reserves, firstValue>>

\* every translation unit has been walked to its end
JoinAll ==
    /\ \A w \in Workers : handled[w] = Len(cfg.tus[w])
    /\ Join

NextTUs ==
    \/ \E w \in Workers : Visit(w)
    \/ \E w \in Workers : Gate(w)
    \/ \E w \in Workers : Reserve(w)
    \/ \E w \in Workers : Update(w)
    \/ JoinAll
    \/ PruneMethods
    \/ ResolveNamespaces
    \/ UpdateRecordNames
    \/ UpdateMemberFunctions
    \/ PruneTypeRefs

SpecTUs == InitTUs /\ [][NextTUs]_vars

\* the Index a single worker leaves that walks the declarations of decls one
\* after the other
RECURSIVE ExtractInOrder(_, _, _)
ExtractInOrder(idx, decls, c) ==
    IF Len(decls) = 0 THEN idx
    ELSE LET res == Head(decls)
             k == KindOf(res)
         IN  IF EarlyReturn(res) \/ Ignored(res, c) \/ Skips(idx[k], res.id)
             THEN ExtractInOrder(idx, Tail(decls), c)
             ELSE ExtractInOrder([idx EXCEPT ![k] = update(@, res.id, SymbolOf(res, c))],
                                 Tail(decls), c)

\* the five post-passes in their order
PostPasses(idx, order) ==
    pruneTypeRefs(
        updateMemberFunctions(
            updateRecordNames(resolveNamespaces(pruneMethods(idx), order)), order))

\* the same keys and the same entries, the order inside a namespace's child
\* lists left aside
SameContent(a, b) ==
    /\ \A k \in Kinds : DOMAIN a[k] = DOMAIN b[k]
    /\ \A k \in Kinds \ {"namespaces"} : a[k] = b[k]
    /\ \A n \in DOMAIN a.namespaces :
          /\ \A k \in ChildKinds :
                /\ Range(ChildList(a.namespaces[n], k)) = Range(ChildList(b.namespaces[n], k))
                /\ Len(ChildList(a.namespaces[n], k)) = Len(ChildList(b.namespaces[n], k))
          /\ [a.namespaces[n] EXCEPT !.records = <<>>, !.enums = <<>>,
                                     !.namespaces = <<>>, !.usings = <<>>]
             = [b.namespaces[n] EXCEPT !.records = <<>>, !.enums = <<>>,
                                       !.namespaces = <<>>, !.usings = <<>>]

----------------------------------------------------------------------------
(* getTypeSymbolID on the types that can be written over a few declarations *)

MaxTypeDepth == 2

\* a type as written: a builtin, the type of a tag declaration, or const,
\* pointer or reference wrapped around a type
Builtin       == [kind |-> "builtin", decl |-> NoDecl, inner |-> <<>>]
TagType(decl) == [kind |-> "tag", decl |-> decl, inner |-> <<>>]
Wrapped(kind, t) == [kind |-> kind, decl |-> NoDecl, inner |-> <<t>>]

\* struct Foo (11), its specializations Foo<int> (14) and Foo<A, B> (16), and
\* enum Color (21)
TagDecls == {TagDecl(11, NullID), TagDecl(14, 11), TagDecl(16, 11), TagDecl(21, NullID)}

RECURSIVE TypesOfDepth(_)
TypesOfDepth(n) ==
    IF n = 0 THEN {Builtin} \cup {TagType(d) : d \in TagDecls}
    ELSE TypesOfDepth(n - 1)
         \cup {Wrapped(k, t) : k \in {"const", "pointer", "reference"},
                               t \in TypesOfDepth(n - 1)}

\* qualifiers do not change what a type is
RECURSIVE Unqualified(_)
Unqualified(t) == IF t.kind = "const" THEN Unqualified(t.inner[1]) ELSE t

\* Type::getAsTagDecl
getAsTagDecl(t) == IF Unqualified(t).kind = "tag" THEN Unqualified(t).decl ELSE NoDecl

\* the three things getTypeSymbolID asks of a QualType
QualTypeOf(t) ==
    LET u == Unqualified(t)
    IN  QualType("", getAsTagDecl(t),
                 u.kind = "pointer",
                 IF u.kind = "pointer" THEN getAsTagDecl(u.inner[1]) ELSE NoDecl,
                 u.kind = "reference",
                 IF u.kind = "reference" THEN getAsTagDecl(u.inner[1]) ELSE NoDecl)

InitTypes ==
    /\ cfg = [ignorePrivateMembers |-> FALSE]
    /\ \E t \in TypesOfDepth(MaxTypeDepth) : cur = [w \in Workers |-> t]
    /\ pc = [w \in Workers |-> "idle"]
    /\ index = EmptyIndex
    /\ numMatches = [k \in Kinds |-> 0]
    /\ handled = NullID
    /\ stage = "indexing"
    /\ NoHistory

\* worker w asks for the SymbolID of the type; handled holds the answer
GetTypeSymbolID(w) ==
    /\ pc[w] = "idle"
    /\ pc' = [pc EXCEPT ![w] = "typed"]
    /\ handled' = getTypeSymbolID(QualTypeOf(cur[w]))
    /\ UNCHANGED <<cfg, index, numMatches, cur, stage, reserves, firstValue, incs>>

NextTypes == \E w \in Workers : GetTypeSymbolID(w)

SpecTypes == InitTypes /\ [][NextTypes]_vars

----------------------------------------------------------------------------
(* updateRecordNames on one record, for the base lists it can have *)

MaxBases == 2

\* the base specifiers a record can be written with: B or C with or without an
\* access specifier, and std::vector
BaseSpecifiers ==
    {[hasRecordDecl |-> TRUE, id |-> 12, access |-> a, name |-> n,
      isInStdNamespace |-> FALSE] :
        a \in {"none", "public", "private", "protected"}, n \in {"B", "C"}}
    \cup {[hasRecordDecl |-> TRUE, id |-> 18, access |-> "public", name |-> "vector",
           isInStdNamespace |-> TRUE]}

\* struct D or class D with the bases given
DerivedOf(kindName, bases) ==
    [Node EXCEPT !.matcher = "record", !.id = 17, !.name = "D", !.parent = 1,
                 !.kindName = kindName, !.bases = bases]

InitBases ==
    /\ cfg = [ignorePrivateMembers |-> FALSE]
    /\ \E kindName \in {"struct", "class"} :
          \E bases \in SeqsUpTo(BaseSpecifiers, MaxBases) :
              /\ cur = [w \in Workers |-> DerivedOf(kindName, bases)]
              /\ index = IndexOf({DerivedOf(kindName, bases), RecBar}, cfg)
    /\ numMatches = [k \in Kinds |-> Size(index[k])]
    /\ pc = [w \in Workers |-> "idle"]
    /\ handled = 0
    /\ stage = "updateRecordNames"
    /\ reserves = [k \in Kinds |-> [id \in DOMAIN index[k] |-> 1]]
    /\ firstValue = index
    /\ incs = numMatches

NextBases == UpdateRecordNames

SpecBases == InitBases /\ [][NextBases]_vars

----------------------------------------------------------------------------
(* updateMemberFunctions on a class template with many parameters *)

MaxRecordParams == 11

Letters == "ABCDEFGHIJKLMNOPQRSTUVWXYZ"

\* the name the front-end prints for the i-th parameter of the outermost template
Placeholder(i) == "type-parameter-0-" \o ToString(i)

\* template <typename A, typename B, ...> struct Foo with k parameters
WideFoo(k) == FooOf([i \in 1..k |-> SubSeq(Letters, i, i)])

\* the methods of Foo<A, B, ...> defined out of line: the return type and the
\* parameter are each of one of the template's parameters
MethodsOfWideFoo(k) ==
    IF k = 0 THEN {[FnGet EXCEPT !.returnType = PlainType("void", NoDecl)]}
    ELSE {[FnGet EXCEPT
              !.name = IF conv THEN "operator " \o Placeholder(i) ELSE "get",
              !.returnType = PlainType(Placeholder(i), NoDecl),
              !.params = <<[name |-> "x", defaultValue |-> Placeholder(j) \o "()",
                            type |-> PlainType("const " \o Placeholder(j) \o " &",
                                               NoDecl)]>>] :
            i \in 0..(k - 1), j \in 0..(k - 1), conv \in BOOLEAN}

InitWide ==
    /\ cfg = [ignorePrivateMembers |-> FALSE]
    /\ \E k \in 0..MaxRecordParams : \E m \in MethodsOfWideFoo(k) :
          index = IndexOf({WideFoo(k), m}, cfg)
    /\ numMatches = [k \in Kinds |-> Size(index[k])]
    /\ pc = [w \in Workers |-> "idle"]
    /\ cur = [w \in Workers |-> Node]
    /\ handled = 0
    /\ stage = "updateMemberFunctions"
    /\ reserves = [k \in Kinds |-> [id \in DOMAIN index[k] |-> 1]]
    /\ firstValue = index
    /\ incs = numMatches

NextWide == UpdateMemberFunctions

SpecWide == InitWide /\ [][NextWide]_vars

----------------------------------------------------------------------------
(* The template parameters of a function template and of a class template
   declared with the same parameter list *)

\* the template parameter declarations a template can be written with
ParmDecls ==
    {[ParmDecl("TemplateTypeParmDecl", n) EXCEPT
         !.declaredWithTypename = tn, !.isParameterPack = pack, !.defaultArg = def] :
        n \in {"T", ""}, tn \in BOOLEAN, pack \in BOOLEAN, def \in {"", "int"}}
    \cup {[ParmDecl("NonTypeTemplateParmDecl", n) EXCEPT
              !.typeName = "int", !.isParameterPack = pack] :
             n \in {"N", ""}, pack \in BOOLEAN}
    \cup {[ParmDecl("TemplateTemplateParmDecl", n) EXCEPT
              !.isParameterPack = pack,
              !.sourceText = "template <typename> class" \o (IF pack THEN "..." ELSE "")
                             \o (IF n = "" THEN "" ELSE " " \o n)] :
             n \in {"C", ""}, pack \in BOOLEAN}

\* template <ps> void make()
FunctionTemplate(ps) ==
    [Node EXCEPT !.matcher = "function", !.id = 38, !.name = "make", !.parent = 1,
                 !.templateParams = ps]

\* template <ps> struct Box
ClassTemplate(ps) ==
    [Node EXCEPT !.matcher = "record", !.id = 16, !.name = "Box", !.parent = 1,
                 !.templateParams = ps]

InitTemplates ==
    /\ \E ps \in SeqsUpTo(ParmDecls, MaxTemplateParams) :
          cfg = [ignorePrivateMembers |-> FALSE, params |-> ps]
    /\ index = EmptyIndex
    /\ numMatches = [k \in Kinds |-> 0]
    /\ pc = [w \in Workers |-> "idle"]
    /\ cur = [w \in Workers |-> Node]
    /\ handled = 0
    /\ stage = "indexing"
    /\ NoHistory

\* a matcher's callback on one of the two templates, from the counter to
\* update(ID, symbol)
ExtractTemplate(w, res) ==
    /\ pc[w] = "idle"
    /\ ~EarlyReturn(res)
    /\ ~Ignored(res, cfg)
    /\ ~contains(index[KindOf(res)], res.id)
    /\ numMatches' = [numMatches EXCEPT ![KindOf(res)] = Increment(@)]
    /\ index' = [index EXCEPT ![KindOf(res)] =
                    update(reserve(@, res.id, EmptySymbol(KindOf(res))), res.id,
                           SymbolOf(res, cfg))]
    /\ handled' = handled + 1
    /\ UNCHANGED <<cfg, pc, cur, stage, reserves, firstValue, incs>>

NextTemplates ==
    \E w \in Workers :
        \E res \in {FunctionTemplate(cfg.params), ClassTemplate(cfg.params)} :
            ExtractTemplate(w, res)

SpecTemplates == InitTemplates /\ [][NextTemplates]_vars

----------------------------------------------------------------------------
(* The callbacks under fair scheduling, on one declaration of each kind *)

\* a namespace, a record, an enum, a function and an alias, and a deleted
\* function, which returns before the counter
DrainDecls == {NsOuter, RecBar, EnColor, FnFree, AlFooRef, FnDeleted}

NextDrain ==
    \/ \E w \in Workers : \E res \in DrainDecls : Match(w, res)
    \/ \E w \in Workers : Return(w)
    \/ \E w \in Workers : Gate(w)
    \/ \E w \in Workers : Reserve(w)
    \/ \E w \in Workers : Update(w)

\* a worker thread that is in a callback runs on: the pool's threads are
\* scheduled by the operating system and no callback blocks
SpecFair ==
    /\ Init /\ [][NextDrain]_vars
    /\ \A w \in Workers :
          /\ WF_vars(Return(w))
          /\ WF_vars(Gate(w))
          /\ WF_vars(Reserve(w))
          /\ WF_vars(Update(w))

----------------------------------------------------------------------------
(* The five post-passes, once each, in every order *)

\* symbols in the Index the passes start from
MaxPassSymbols == 4

PassNames == {"pruneMethods", "resolveNamespaces", "updateRecordNames",
              "updateMemberFunctions", "pruneTypeRefs"}

\* the post-pass of that name
ApplyPass(name, idx, order) ==
    CASE name = "pruneMethods" -> pruneMethods(idx)
      [] name = "resolveNamespaces" -> resolveNamespaces(idx, order)
      [] name = "updateRecordNames" -> updateRecordNames(idx)
      [] name = "updateMemberFunctions" -> updateMemberFunctions(idx, order)
      [] name = "pruneTypeRefs" -> pruneTypeRefs(idx)

\* a namespace, a class template with a base, a method of each, a method whose
\* record is not indexed, and a using-declaration that names a method
PassDecls == {NsOuter, RecFoo, RecBar, FnGet, FnOrphan, FnRun, AlRun}

InitOrders ==
    /\ \E passes \in Orders(PassNames) :
          cfg = [ignorePrivateMembers |-> FALSE, passes |-> passes]
    /\ \E D \in SUBSET PassDecls :
          /\ Cardinality(D) <= MaxPassSymbols
          /\ Indexable(D, cfg)
          /\ index = IndexOf(D, cfg)
          /\ numMatches = [k \in Kinds |-> Cardinality(OfKind(D, k))]
    /\ pc = [w \in Workers |-> "idle"]
    /\ cur = [w \in Workers |-> Node]
    /\ handled = 0
    /\ stage = cfg.passes[1]
    /\ reserves = [k \in Kinds |-> [id \in DOMAIN index[k] |-> 1]]
    /\ firstValue = index
    /\ incs = numMatches

\* the next pass of cfg.passes
ApplyNextPass ==
    /\ handled < Len(cfg.passes)
    /\ \E order \in IterationOrders(index) :
          index' = ApplyPass(cfg.passes[handled + 1], index, order)
    /\ handled' = handled + 1
    /\ stage' = IF handled + 1 < Len(cfg.passes) THEN cfg.passes[handled + 2] ELSE "done"
    /\ UNCHANGED <<cfg, numMatches, pc, cur, reserves, firstValue, incs>>

NextOrders == ApplyNextPass

SpecOrders == InitOrders /\ [][NextOrders]_vars

----------------------------------------------------------------------------
(* One post-pass applied twice *)

InitTwice ==
    /\ \E pass \in {"pruneMethods", "resolveNamespaces", "updateRecordNames",
                    "pruneTypeRefs"} :
          cfg = [ignorePrivateMembers |-> FALSE, passes |-> <<pass, pass>>]
    /\ \E D \in SUBSET (PassDecls \cup {NsInner, AlFooRef}) :
          /\ Cardinality(D) <= MaxPassSymbols
          /\ Indexable(D, cfg)
          /\ index = IndexOf(D, cfg)
          /\ numMatches = [k \in Kinds |-> Cardinality(OfKind(D, k))]
    /\ pc = [w \in Workers |-> "idle"]
    /\ cur = [w \in Workers |-> Node]
    /\ handled = 0
    /\ stage = cfg.passes[1]
    /\ reserves = [k \in Kinds |-> [id \in DOMAIN index[k] |-> 1]]
    /\ firstValue = index
    /\ incs = numMatches

SpecTwice == InitTwice /\ [][NextOrders]_vars

----------------------------------------------------------------------------
(* isEnclosingNamespaceInList on the declarations of a nest of namespaces and
   records *)

MaxNestDepth == 3

\* cfg.nest is a nest of declarations, outermost first, each the declaration
\* context of the next
NestContexts ==
    {Context("namespace", "ns"), Context("namespace", "detail"), Context("namespace", ""),
     Context("namespace", "ns_detail_v2"), Context("record", "detail")}

\* decl->getDeclContext() and its getParent()s, with the declaration itself
\* as the first of them
getDeclContextsAndSelf(nest, d) == [i \in 1..d |-> nest[d + 1 - i]]

\* decl->getDeclContext() and its getParent()s up to the translation unit, for
\* the d-th declaration of the nest: innermost first
getDeclContexts(nest, d) == [i \in 1..(d - 1) |-> nest[d - i]]

InitNest ==
    /\ cfg \in [ignoreNamespaces : {<<>>, <<"detail">>, <<"impl", "detail">>},
                nest : SeqsUpTo(NestContexts, MaxNestDepth),
                ignorePrivateMembers : {FALSE}]
    /\ index = EmptyIndex
    /\ numMatches = [k \in Kinds |-> 0]
    /\ pc = [w \in Workers |-> "idle"]
    /\ cur = [w \in Workers |-> Node]
    /\ handled = 0
    /\ stage = "indexing"
    /\ reserves = <<>>
    /\ firstValue = EmptyIndex
    /\ incs = [k \in Kinds |-> 0]

\* the function is called on the next declaration of the nest; reserves
\* collects what it returns
IsEnclosingNamespaceInList ==
    /\ handled < Len(cfg.nest)
    /\ handled' = handled + 1
    /\ reserves' = Append(reserves,
                          isEnclosingNamespaceInList(getDeclContexts(cfg.nest, handled + 1),
                                                     cfg.ignoreNamespaces))
    /\ UNCHANGED <<cfg, index, numMatches, pc, cur, stage, firstValue, incs>>

NextNest == IsEnclosingNamespaceInList

SpecNest == InitNest /\ [][NextNest]_vars

----------------------------------------------------------------------------
(* The claims *)


\* C1: for every Database and SymbolID, under every interleaving of the workers,
\* at most one worker passes the contains(ID)/reserve(ID) gate and builds the
\* symbol.
C1_OneBuilderPerID ==
    \A k \in Kinds : \A id \in DOMAIN reserves[k] : reserves[k][id] <= 1

\* C2: once the workers have drained, every stored entry equals the value of
\* the first update(ID, value) that completed for its ID.
C2_FirstWriterWins ==
    (stage = "indexing" /\ Drained) =>
        \A k \in Kinds : \A id \in DOMAIN index[k] : index[k][id] = firstValue[k][id]

DroppedUncounted(res) ==
    \/ res.matcher = "function" /\ (res.isDeletedAsWritten \/ res.isDeductionGuide)
    \/ res.matcher = "using"
       /\ (res.declClass \notin {"UsingDecl", "UsingShadowDecl", "TypeAliasDecl"}
           \/ res.isFunctionLocal)

C4_MatchesAtLeastEntries ==
    \A k \in Kinds : numMatches[k] >= Size(index[k])

\* after pruning, with functions left and more matches than entries
C4_Witness ==
    /\ stage = "done"
    /\ Size(index.functions) >= 1
    /\ Size(index.records) >= 1
    /\ numMatches.functions > Size(index.functions)

After(st) ==
    LET at(x) == CHOOSE i \in 1..Len(Stages) : Stages[i] = x
    IN  {x \in Range(Stages) : at(x) > at(st)}

\* C6: after resolveNamespaces, every record, enum, namespace and alias whose
\* parentNamespaceID is a key of namespaces is listed exactly once by that
\* namespace, in the list of its kind and in no other; and every ID a namespace
\* lists is an entry of the matching Database whose parent is that namespace.
C6_NamespaceChildBijection ==
    stage \in After("resolveNamespaces") =>
        /\ \A k \in ChildKinds : \A id \in DOMAIN index[k] :
              LET s == index[k][id]
              IN  s.parentNamespaceID \in DOMAIN index.namespaces =>
                      \A k2 \in ChildKinds :
                          Occurrences(ChildList(index.namespaces[s.parentNamespaceID], k2),
                                      s.ID)
                          = IF k2 = k THEN 1 ELSE 0
        /\ \A n \in DOMAIN index.namespaces : \A k \in ChildKinds :
              \A id \in Range(ChildList(index.namespaces[n], k)) :
                  /\ id \in DOMAIN index[k]
                  /\ index[k][id].parentNamespaceID = index.namespaces[n].ID

\* a namespace that lists two records, a namespace and an alias
C6_Witness ==
    /\ stage = "updateRecordNames"
    /\ \E n \in DOMAIN index.namespaces :
          /\ Len(index.namespaces[n].records) = 2
          /\ Len(index.namespaces[n].namespaces) = 1
          /\ Len(index.namespaces[n].usings) = 1

\* C7, as claimed: after the last post-pass every ID in a record's methodIDs is
\* a key of the functions Database.
C7_NoDanglingMethodIDs ==
    stage = "done" =>
        \A r \in DOMAIN index.records :
            \A mid \in Range(index.records[r].methodIDs) : mid \in DOMAIN index.functions

\* C7, amended: the post-passes never touch a record's methodIDs, so the list
\* stays as the record matcher stored it and an ID whose function was never
\* indexed or was pruned stays listed; after the last pass every listed ID that
\* is a key of functions names a function pruneMethods had no reason to delete.
C7_MethodIDsKeptAsExtracted ==
    /\ [][stage # "indexing" =>
             \A r \in DOMAIN index.records :
                 /\ r \in DOMAIN index'.records
                 /\ index'.records[r].methodIDs = index.records[r].methodIDs]_vars
    /\ [](stage = "done" =>
             \A r \in DOMAIN index.records :
                 \A mid \in Range(index.records[r].methodIDs) :
                     mid \in DOMAIN index.functions =>
                         ~(/\ index.functions[mid].isRecordMember
                           /\ index.functions[mid].parentNamespaceID
                                  \notin DOMAIN index.records))

\* a record that lists an indexed method next to one the Index does not hold
C7_Witness ==
    /\ stage = "done"
    /\ \E r \in DOMAIN index.records :
          /\ \E mid \in Range(index.records[r].methodIDs) : mid \in DOMAIN index.functions
          /\ \E mid \in Range(index.records[r].methodIDs) : mid \notin DOMAIN index.functions

\* C8: pruneMethods deletes exactly the functions that are record members with
\* a parentNamespaceID that is no key of records and leaves every other
\* function as it was; from then on no function is a record member of an absent
\* record.
C8_PruneMethodsExact ==
    /\ [][stage = "pruneMethods" /\ stage' # stage =>
             /\ DOMAIN index'.functions =
                    {k \in DOMAIN index.functions :
                        ~(/\ index.functions[k].isRecordMember
                          /\ index.functions[k].parentNamespaceID \notin DOMAIN index.records)}
             /\ \A k \in DOMAIN index'.functions : index'.functions[k] = index.functions[k]
          ]_vars
    /\ [](stage \in After("pruneMethods") =>
             \A k \in DOMAIN index.functions :
                 ~(/\ index.functions[k].isRecordMember
                   /\ index.functions[k].parentNamespaceID \notin DOMAIN index.records))

\* pruneMethods has just deleted a function and kept a method and a free one
C8_Witness ==
    /\ stage = "resolveNamespaces"
    /\ numMatches.functions > Size(index.functions)
    /\ \E k \in DOMAIN index.functions : index.functions[k].isRecordMember
    /\ \E k \in DOMAIN index.functions : ~index.functions[k].isRecordMember

\* every TypeRef of the Index
TypeRefs(idx) ==
    {idx.functions[k].returnType : k \in DOMAIN idx.functions}
    \cup UNION {{p.type : p \in Range(idx.functions[k].params)} : k \in DOMAIN idx.functions}
    \cup UNION {{v.type : v \in Range(idx.records[k].vars)} : k \in DOMAIN idx.records}
    \cup {idx.aliases[k].target : k \in DOMAIN idx.aliases}

\* C9: after pruneTypeRefs every TypeRef.id (return types, parameter types,
\* member-variable types, alias targets) is null or a key of records, enums or
\* aliases.
C9_TypeRefsResolve ==
    stage \in After("pruneTypeRefs") =>
        \A t \in TypeRefs(index) :
            \/ t.id = NullID
            \/ t.id \in DOMAIN index.records \cup DOMAIN index.enums \cup DOMAIN index.aliases

\* after pruneTypeRefs: a link that resolves, and a named type whose link was cut
C9_Witness ==
    /\ stage = "done"
    /\ \E t \in TypeRefs(index) : t.id \in DOMAIN index.records
    /\ \E k \in DOMAIN index.aliases :
          index.aliases[k].target.id = NullID /\ index.aliases[k].target.name # ""

\* C10: for every function f of the Index, 0 <= postTemplate <= nameStart <=
\* len(proto) and the len(name) characters of proto from nameStart on are the
\* name; updateMemberFunctions keeps it so for every function it rewrites,
\* whatever the names of the record's template parameters.
C10_ProtoOffsets ==
    \A k \in DOMAIN index.functions :
        LET f == index.functions[k]
        IN  /\ 0 <= f.postTemplate
            /\ f.postTemplate <= f.nameStart
            /\ f.nameStart <= Len(f.proto)
            /\ f.nameStart + Len(f.name) <= Len(f.proto)
            /\ SubSeq(f.proto, f.nameStart + 1, f.nameStart + Len(f.name)) = f.name

\* updateMemberFunctions has rewritten a conversion operator: its name, its
\* proto and the place of the name in the proto have all changed
C10_Witness ==
    /\ stage \in After("updateMemberFunctions")
    /\ \E k \in DOMAIN index.functions :
          /\ firstValue.functions[k].name = "operator type-parameter-0-0"
          /\ index.functions[k].name = "operator U"
          /\ index.functions[k].proto # firstValue.functions[k].proto
          /\ index.functions[k].nameStart # firstValue.functions[k].nameStart

\* C11, as claimed: whatever config.ignorePaths holds, a declaration with an
\* enclosing non-anonymous namespace whose name contains an entry of
\* config.ignoreNamespaces is filtered out, so it is never matched.
C11_NamespaceFilterHonoured ==
    \A w \in Workers :
        pc[w] = "matched" =>
            ~isEnclosingNamespaceInList(cur[w].contexts, cfg.ignoreNamespaces)

\* C12: a declaration with a known file whose name relative to config.rootDir
\* contains an entry of config.ignorePaths (literally, case-sensitively) is
\* never matched, and one whose relative name contains none is not rejected by
\* the file test: if it is rejected, the namespace test rejected it.
C12_PathFilter ==
    \A w \in Workers :
        LET decl == cur[w]
            listed == \E j \in 1..Len(cfg.ignorePaths) :
                          Contains(relative(decl.file, cfg.rootDir), cfg.ignorePaths[j])
        IN  /\ (pc[w] = "matched" /\ decl.validLoc /\ decl.hasFileEntry) => ~listed
            /\ (pc[w] = "ignored" /\ ~listed) =>
                   isEnclosingNamespaceInList(decl.contexts, cfg.ignoreNamespaces)

\* one worker has rejected third_party/foo.h; the root directory itself lies
\* under a directory named third_party
C12_Witness ==
    /\ pc["w1"] = "ignored"
    /\ cfg.rootDir = <<"third_party", "proj">>
    /\ cfg.ignorePaths = <<"third_party/">>
    /\ cfg.ignoreNamespaces = <<>>

\* C13, as claimed: with ignorePrivateMembers = true nothing declared private
\* is in the Index: no function, record, enum or alias entry, no member
\* variable in a record's vars, no method or alias ID in a record's methodIDs
\* or aliasIDs.
C13_NoPrivateSymbols ==
    cfg.ignorePrivateMembers =>
        /\ \A d \in Decls : d.access = "private" => d.id \notin DOMAIN index[KindOf(d)]
        /\ \A r \in DOMAIN index.records :
              /\ \A i \in 1..Len(index.records[r].vars) :
                    index.records[r].vars[i].access # "private"
              /\ \A d \in Decls :
                    d.access = "private" =>
                        /\ KindOf(d) = "functions" =>
                               d.id \notin Range(index.records[r].methodIDs)
                        /\ KindOf(d) = "aliases" =>
                               d.id \notin Range(index.records[r].aliasIDs)

\* C14: when the compilation database is missing or cannot be parsed, run()
\* reports the error and returns without starting the executor: no worker ever
\* runs a callback, and the five Databases keep no entries and numMatches 0.
C14_SetupFailureLeavesIndex ==
    cfg.compileCommandsJSON # "loaded" =>
        /\ stage \in {"setup", "failed"}
        /\ index = EmptyIndex
        /\ numMatches = [k \in Kinds |-> 0]
        /\ handled = 0
        /\ \A w \in Workers : pc[w] = "idle"

\* run() has returned on a file that does not parse
C14_Witness ==
    /\ stage = "failed"
    /\ cfg.compileCommandsJSON = "unparsable"

\* the invariants of the data model, each as a predicate of an Index
ChildListsConsistent(idx) ==
    /\ \A k \in ChildKinds : \A id \in DOMAIN idx[k] :
          idx[k][id].parentNamespaceID \in DOMAIN idx.namespaces =>
              Occurrences(ChildList(idx.namespaces[idx[k][id].parentNamespaceID], k), id) = 1
    /\ \A n \in DOMAIN idx.namespaces : \A k \in ChildKinds :
          \A id \in Range(ChildList(idx.namespaces[n], k)) :
              id \in DOMAIN idx[k] /\ idx[k][id].parentNamespaceID = n

MethodIDsResolve(idx) ==
    \A r \in DOMAIN idx.records :
        \A mid \in Range(idx.records[r].methodIDs) : mid \in DOMAIN idx.functions

MethodsHaveParents(idx) ==
    \A k \in DOMAIN idx.functions :
        idx.functions[k].isRecordMember =>
            idx.functions[k].parentNamespaceID \in DOMAIN idx.records

TypeRefsResolve(idx) ==
    \A t \in TypeRefs(idx) :
        t.id = NullID \/ t.id \in DOMAIN idx.records \cup DOMAIN idx.enums \cup DOMAIN idx.aliases

\* C15, as claimed: once the run is over (the workers have drained and the
\* post-passes have run) the Index satisfies every invariant of the data
\* model, the one on method IDs included.
C15_ConsistentAfterRun ==
    stage = "done" =>
        /\ ChildListsConsistent(index)
        /\ MethodIDsResolve(index)
        /\ MethodsHaveParents(index)
        /\ TypeRefsResolve(index)

\* C15, amended: once the workers have drained and the five post-passes have
\* run, namespace child lists agree with the parent pointers, no member
\* function has an absent parent record and every TypeRef.id is null or
\* resolves to a record, enum or alias; a record's methodIDs may still name
\* functions that are not in the Index.
C15_ConsistentButForMethodIDs ==
    stage = "done" =>
        /\ ChildListsConsistent(index)
        /\ MethodsHaveParents(index)
        /\ TypeRefsResolve(index)

\* the finished Index of an incomplete run: a namespace with a record in it, a
\* type link that resolves, an alias whose link was cut, and a method ID that
\* names no function
C15_Witness ==
    /\ stage = "done"
    /\ \E n \in DOMAIN index.namespaces : Len(index.namespaces[n].records) > 0
    /\ \E k \in DOMAIN index.aliases :
          index.aliases[k].target.id = NullID /\ firstValue.aliases[k].target.id # NullID
    /\ ~MethodIDsResolve(index)

\* the Index of the run in which one worker walks the translation unit of w1
\* and then that of w2
Reference ==
    LET extracted == ExtractInOrder(EmptyIndex, cfg.tus["w1"] \o cfg.tus["w2"], cfg)
    IN  PostPasses(extracted, CHOOSE o \in IterationOrders(extracted) : TRUE)

\* C16: for a fixed set of translation units and a fixed Config every run ends
\* with the same keys in each Database and the same content of every entry:
\* the finished Index of any interleaving is that of the run that takes the
\* translation units one after the other.
C16_SameIndexEveryRun ==
    stage = "done" => SameContent(index, Reference)

\* C17: for a type T with a tag declaration, getTypeSymbolID gives T, const T,
\* T* and T& the same ID, that of the primary (non-specialized) declaration,
\* also when T is a specialization T<A, B>; it gives the null SymbolID when
\* neither the type, nor its pointee, nor its referent has a tag declaration.
C17_OneIDPerType ==
    \A w \in Workers :
        pc[w] = "typed" =>
            LET t == cur[w]
                Forms(d) == {TagType(d)}
                            \cup {Wrapped(k, TagType(d)) : k \in {"const", "pointer", "reference"}}
                Tagless(x) == getAsTagDecl(x) = NoDecl
            IN  /\ \A d \in TagDecls :
                      t \in Forms(d) =>
                          handled = IF d.primary # NullID THEN d.primary ELSE d.id
                /\ (/\ Tagless(t)
                    /\ Unqualified(t).kind = "pointer" => Tagless(Unqualified(t).inner[1])
                    /\ Unqualified(t).kind = "reference" => Tagless(Unqualified(t).inner[1]))
                   => handled = NullID

\* the ID of Foo was returned for a reference to the specialization Foo<A, B>
C17_Witness ==
    /\ pc["w1"] = "typed"
    /\ cur["w1"] = Wrapped("reference", TagType(TagDecl(16, 11)))
    /\ handled = 11

Inheritance(accesses, names) ==
    JoinStrings([i \in 1..Len(names) |->
                    (IF accesses[i] = "none" THEN "" ELSE accesses[i] \o " ") \o names[i]],
                ", ")

\* C19: updateRecordNames appends to the proto of a record with base records
\* " : " and the base entries in baseRecords order, separated by ", ", each its
\* access keyword and a space (nothing for access none) and then the base name;
\* it leaves the proto of a record without base records as it was.
C19_InheritanceAppended ==
    stage \in After("updateRecordNames") =>
        \A r \in DOMAIN index.records :
            LET c == index.records[r]
                before == firstValue.records[r].proto
            IN  IF Len(c.baseRecords) = 0 THEN c.proto = before
                ELSE c.proto = before \o " : "
                                 \o Inheritance([i \in 1..Len(c.baseRecords) |->
                                                    c.baseRecords[i].access],
                                                [i \in 1..Len(c.baseRecords) |->
                                                    c.baseRecords[i].name])

\* struct D : public B, private C has got a proto that ends in
\* " : public B, private C", and Bar, which has no base, has kept its proto
C19_Witness ==
    /\ stage \in After("updateRecordNames")
    /\ index.records[17].proto = "struct D : public B, private C"
    /\ firstValue.records[17].proto = "struct D"
    /\ index.records[12].proto = firstValue.records[12].proto

\* C20, as claimed: a base entry of the rendered inheritance list carries an
\* access keyword if and only if one was written in the source; a base written
\* without one is stored with access none and contributes no prefix.
C20_PrefixIffWritten ==
    stage \in After("updateRecordNames") =>
        LET c == index.records[17]
            written == [i \in 1..Len(cur["w1"].bases) |-> cur["w1"].bases[i].access]
        IN  /\ \A i \in 1..Len(c.baseRecords) : c.baseRecords[i].access = written[i]
            /\ Len(c.baseRecords) > 0 =>
                   c.proto = firstValue.records[17].proto \o " : "
                             \o Inheritance(written,
                                            [i \in 1..Len(c.baseRecords) |->
                                                c.baseRecords[i].name])

Digits == "0123456789"

IsDigit(ch) == \E d \in 1..10 : SubSeq(Digits, d, d) = ch

DigitValue(ch) == (CHOOSE d \in 1..10 : SubSeq(Digits, d, d) = ch) - 1

\* the number of digits of s from position pos on
RECURSIVE DigitRun(_, _)
DigitRun(s, pos) ==
    IF pos <= Len(s) /\ IsDigit(SubSeq(s, pos, pos)) THEN 1 + DigitRun(s, pos + 1) ELSE 0

RECURSIVE Decimal(_)
Decimal(s) ==
    IF Len(s) = 0 THEN 0
    ELSE 10 * Decimal(SubSeq(s, 1, Len(s) - 1)) + DigitValue(SubSeq(s, Len(s), Len(s)))

\* the substitution T: every placeholder "type-parameter-0-<i>", i read to its
\* last digit, replaced by names[i + 1] where i < Len(names)
RECURSIVE Substitute(_, _, _)
Substitute(s, names, pos) ==
    LET prefix == Len("type-parameter-0-")
        found == {p \in pos..Len(s) : /\ StartsWithAt(s, "type-parameter-0-", p)
                                       /\ DigitRun(s, p + prefix) > 0}
    IN  IF found = {} THEN SubSeq(s, pos, Len(s))
        ELSE LET p == Min(found)
                 n == DigitRun(s, p + prefix)
                 i == Decimal(SubSeq(s, p + prefix, p + prefix + n - 1))
             IN  SubSeq(s, pos, p - 1)
                 \o (IF i < Len(names) THEN names[i + 1]
                     ELSE SubSeq(s, p, p + prefix + n - 1))
                 \o Substitute(s, names, p + prefix + n)

\* C21, as claimed: for a record with template parameters P_0..P_{k-1}, k of any
\* size, updateMemberFunctions replaces every "type-parameter-0-i" by P_i.name
\* in the proto, in the name and in every parameter's type name and default
\* value of each of the record's methods; no placeholder is replaced by the
\* name of another index.
C21_PlaceholdersReplaced ==
    stage \in After("updateMemberFunctions") =>
        \A r \in DOMAIN index.records :
            \A n \in 1..Len(index.records[r].methodIDs) :
                LET m == index.records[r].methodIDs[n]
                    names == [i \in 1..Len(index.records[r].templateParams) |->
                                 index.records[r].templateParams[i].name]
                    T(s) == Substitute(s, names, 1)
                IN  m \in DOMAIN index.functions =>
                        LET f == index.functions[m]
                            before == firstValue.functions[m]
                        IN  /\ f.proto = T(before.proto)
                            /\ f.name = T(before.name)
                            /\ \A i \in 1..Len(f.params) :
                                  /\ f.params[i].type.name = T(before.params[i].type.name)
                                  /\ f.params[i].defaultValue
                                         = T(before.params[i].defaultValue)

\* the Index with the id of every TypeRef blanked
WithoutTypeRefIDs(idx) ==
    [idx EXCEPT
        !.functions =
            [k \in DOMAIN idx.functions |->
                [idx.functions[k] EXCEPT
                    !.returnType.id = NullID,
                    !.params = [i \in 1..Len(@) |-> [@[i] EXCEPT !.type.id = NullID]]]],
        !.records =
            [k \in DOMAIN idx.records |->
                [idx.records[k] EXCEPT
                    !.vars = [i \in 1..Len(@) |-> [@[i] EXCEPT !.type.id = NullID]]]],
        !.aliases =
            [k \in DOMAIN idx.aliases |-> [idx.aliases[k] EXCEPT !.target.id = NullID]]]

\* the TypeRefs of the Index, each with the place it is at
TypeRefsAt(idx) ==
    {<<"returnType", k, 0, idx.functions[k].returnType>> : k \in DOMAIN idx.functions}
    \cup UNION {{<<"param", k, i, idx.functions[k].params[i].type>> :
                    i \in 1..Len(idx.functions[k].params)} : k \in DOMAIN idx.functions}
    \cup UNION {{<<"var", k, i, idx.records[k].vars[i].type>> :
                    i \in 1..Len(idx.records[k].vars)} : k \in DOMAIN idx.records}
    \cup {<<"target", k, 0, idx.aliases[k].target>> : k \in DOMAIN idx.aliases}

\* C22: pruneTypeRefs changes nothing but the TypeRef ids that do not resolve:
\* every TypeRef name, every TypeRef id that is a key of records, enums or
\* aliases, every other field of every symbol, the key set of every Database
\* and every numMatches are as they were.
C22_PruneTypeRefsFrame ==
    [][(stage = "pruneTypeRefs" /\ stage' = "done") =>
          /\ numMatches' = numMatches
          /\ \A k \in Kinds : DOMAIN index'[k] = DOMAIN index[k]
          /\ WithoutTypeRefIDs(index') = WithoutTypeRefIDs(index)
          /\ \A t \in TypeRefsAt(index) :
                (\/ t[4].id \in DOMAIN index.records
                 \/ t[4].id \in DOMAIN index.enums
                 \/ t[4].id \in DOMAIN index.aliases) => t \in TypeRefsAt(index')]_vars

\* pruneTypeRefs has run on an Index where one TypeRef did not resolve and
\* another did: the first has lost its id and kept its name, the second has
\* kept both
C22_Witness ==
    /\ stage = "done"
    /\ \E t \in TypeRefsAt(firstValue) :
          /\ t[4].id # NullID
          /\ t[4].name # ""
          /\ <<t[1], t[2], t[3], TypeRef(t[4].name, NullID)>> \in TypeRefsAt(index)
    /\ \E t \in TypeRefsAt(firstValue) :
          /\ t[4].id \in DOMAIN index.records
          /\ t \in TypeRefsAt(index)

\* a step of the post-pass of stage st
PassStep(st) == stage = st /\ stage' = StageAfter(st)

\* C23: once extraction has finished, entries are destroyed only by pruning:
\* resolveNamespaces, updateRecordNames, updateMemberFunctions and pruneTypeRefs
\* leave the key set of all five Databases unchanged, and pruneMethods removes
\* keys only from functions, leaving records, enums, namespaces and aliases
\* (each record's methodIDs and aliasIDs among them) and every numMatches
\* unchanged.
C23_OnlyPruningDestroys ==
    [][/\ \A st \in {"resolveNamespaces", "updateRecordNames", "updateMemberFunctions",
                     "pruneTypeRefs"} :
             PassStep(st) => \A k \in Kinds : DOMAIN index'[k] = DOMAIN index[k]
       /\ PassStep("pruneMethods") =>
             /\ DOMAIN index'.functions \subseteq DOMAIN index.functions
             /\ \A k \in Kinds \ {"functions"} : index'[k] = index[k]
             /\ numMatches' = numMatches]_vars

\* the post-passes have run on an Index with symbols of all five kinds:
\* pruneMethods has dropped a function and every other key is still there
C23_Witness ==
    /\ stage = "done"
    /\ DOMAIN index.functions # DOMAIN firstValue.functions
    /\ DOMAIN index.functions # {}
    /\ \A k \in Kinds \ {"functions"} :
          DOMAIN index[k] = DOMAIN firstValue[k] /\ DOMAIN index[k] # {}
    /\ \E r \in DOMAIN index.records :
          \E i \in 1..Len(index.records[r].methodIDs) :
              index.records[r].methodIDs[i] \notin DOMAIN index.functions

\* C24, as claimed: template parameters are collected identically for function
\* templates and for records: for a type, a non-type and a template-template
\* parameter alike both extractors record one TemplateParam with the same
\* templateType, name, type and flags, and a template-template parameter of a
\* function template is recorded as TemplateTemplateType with its name and the
\* source text of its declaration.
C24_TemplateParamsAlike ==
    (38 \in DOMAIN index.functions /\ 16 \in DOMAIN index.records) =>
        /\ index.functions[38].templateParams = index.records[16].templateParams
        /\ \A i \in 1..Len(cfg.params) :
              cfg.params[i].declClass = "TemplateTemplateParmDecl" =>
                  /\ index.functions[38].templateParams[i].templateType
                         = "TemplateTemplateType"
                  /\ index.functions[38].templateParams[i].name = cfg.params[i].name
                  /\ index.functions[38].templateParams[i].type = cfg.params[i].sourceText

\* Database k holds for id the empty symbol that reserve(id) put there
IsPlaceholder(k, id) == id \in DOMAIN index[k] /\ index[k][id] = EmptySymbol(k)

\* C25: in every extractor each path that calls reserve(ID) reaches
\* update(ID, value) for the same ID with no return in between: under fair
\* scheduling every reserved ID is eventually updated, and once all workers
\* have drained no Database holds an empty reserved placeholder.
C25_ReservedThenUpdated ==
    /\ [](Drained => \A k \in Kinds : \A id \in DOMAIN index[k] : ~IsPlaceholder(k, id))
    /\ \A k \in Kinds : \A id \in {d.id : d \in OfKind(DrainDecls, k)} :
          IsPlaceholder(k, id) ~> ~IsPlaceholder(k, id)
    /\ \A w \in Workers : (pc[w] = "update") ~> (pc[w] = "idle")

\* two workers have passed the gate for one ID, both have reserved it, both have
\* come to update, and the Database holds the symbol
C25_Witness ==
    /\ Drained
    /\ \E k \in Kinds : \E id \in DOMAIN index[k] :
          /\ reserves[k][id] = 2
          /\ index[k][id] # EmptySymbol(k)
          /\ index[k][id].ID = id

\* each function ID is in the methodIDs of at most one record
MethodsOfOneRecord(idx) ==
    \A r1, r2 \in DOMAIN idx.records :
        r1 # r2 => Range(idx.records[r1].methodIDs) \cap Range(idx.records[r2].methodIDs) = {}

\* C26: the five post-passes read and write disjoint parts of the Index:
\* applied once each in any of the 120 orders they leave the same Index, up to
\* the order of the child lists, as in the fixed order, provided no function ID
\* is in the methodIDs of two records.
C26_PassesCommute ==
    (stage = "done" /\ MethodsOfOneRecord(firstValue)) =>
        \A order \in IterationOrders(firstValue) :
            SameContent(index, PostPasses(firstValue, order))

\* the passes have run in the reverse of the fixed order on an Index where
\* each had something to do: a method was pruned, a namespace has got a child,
\* a proto has got its base list, a placeholder its name, an alias target has
\* lost its id
C26_Witness ==
    /\ stage = "done"
    /\ cfg.passes = <<"pruneTypeRefs", "updateMemberFunctions", "updateRecordNames",
                      "resolveNamespaces", "pruneMethods">>
    /\ DOMAIN index.functions # DOMAIN firstValue.functions
    /\ \E n \in DOMAIN index.namespaces : Len(index.namespaces[n].records) > 0
    /\ \E r \in DOMAIN index.records : index.records[r].proto # firstValue.records[r].proto
    /\ \E f \in DOMAIN index.functions :
          index.functions[f].proto # firstValue.functions[f].proto

\* C27: resolveNamespaces and updateRecordNames only append and never clear, so
\* they are not idempotent: applied a second time, resolveNamespaces makes every
\* child ID occur twice in its namespace's list and updateRecordNames appends
\* the inheritance list to proto a second time; pruneMethods and pruneTypeRefs
\* are idempotent: applied a second time they change nothing.
C27_AppendTwicePruneOnce ==
    [][(handled = 1 /\ handled' = 2) =>
          /\ stage \in {"pruneMethods", "pruneTypeRefs"} => index' = index
          /\ stage = "resolveNamespaces" =>
                \A n \in DOMAIN index'.namespaces : \A k \in ChildKinds :
                    LET kids == ChildList(index'.namespaces[n], k)
                    IN  /\ Len(kids) = 2 * Len(ChildList(index.namespaces[n], k))
                        /\ \A id \in Range(kids) : Occurrences(kids, id) = 2
          /\ stage = "updateRecordNames" =>
                \A r \in DOMAIN index'.records :
                    LET c == index'.records[r]
                        list == " : " \o Inheritance(
                                    [i \in 1..Len(c.baseRecords) |-> c.baseRecords[i].access],
                                    [i \in 1..Len(c.baseRecords) |-> c.baseRecords[i].name])
                    IN  IF Len(c.baseRecords) = 0 THEN c.proto = firstValue.records[r].proto
                        ELSE /\ index.records[r].proto = firstValue.records[r].proto \o list
                             /\ c.proto = firstValue.records[r].proto \o list \o list]_vars

\* resolveNamespaces has run twice: namespace ns lists each of its two records,
\* and its namespace, twice
C27_Witness ==
    /\ handled = 2
    /\ cfg.passes = <<"resolveNamespaces", "resolveNamespaces">>
    /\ \E n \in DOMAIN index.namespaces :
          /\ Len(index.namespaces[n].records) = 4
          /\ Range(index.namespaces[n].records) = {11, 12}
          /\ index.namespaces[n].namespaces = <<2, 2>>

\* the d-th declaration of the nest is a namespace whose own name contains an
\* entry of ignoreNamespaces
NamedInList(d) ==
    /\ cfg.nest[d].kind = "namespace"
    /\ \E j \in 1..Len(cfg.ignoreNamespaces) :
          Contains(cfg.nest[d].name, cfg.ignoreNamespaces[j])

\* C28: isEnclosingNamespaceInList looks at the declaration contexts that
\* enclose a declaration, never at the declaration itself: for a namespace whose
\* own name contains an ignoreNamespaces entry and none of whose enclosing
\* namespaces' names does it returns false, and for every declaration nested at
\* any depth inside that namespace it returns true.
C28_EnclosingOnly ==
    \A d \in 1..Len(reserves) :
        NamedInList(d) =>
            /\ (\A i \in 1..(d - 1) : ~NamedInList(i)) => reserves[d] = FALSE
            /\ \A e \in (d + 1)..Len(reserves) : reserves[e] = TRUE

\* namespace detail { namespace { struct detail { ... }; } } with "detail"
\* ignored: false for the namespace, true for the anonymous namespace and for
\* the record in it
C28_Witness ==
    /\ cfg.ignoreNamespaces = <<"detail">>
    /\ cfg.nest = <<Context("namespace", "detail"), Context("namespace", ""),
                    Context("record", "detail")>>
    /\ reserves = <<FALSE, TRUE, TRUE>>

\* function f with the fields blanked that updateMemberFunctions may write to
WithoutRewritten(f) ==
    [f EXCEPT !.proto = "", !.name = "", !.postTemplate = 0, !.nameStart = 0,
              !.params = [i \in 1..Len(@) |->
                             [@[i] EXCEPT !.type.name = "", !.defaultValue = ""]]]

\* C29: updateMemberFunctions modifies only proto, name, postTemplate, nameStart
\* and the type name and default value of the parameters, of functions that are
\* in some record's methodIDs and in functions; returnType, templateParams,
\* every ID and every function no methodIDs refers to are left as they were, and
\* name and the offsets change only when the recomposed proto differs from the
\* old one.
C29_UpdateMemberFunctionsFrame ==
    [][PassStep("updateMemberFunctions") =>
          /\ \A k \in Kinds \ {"functions"} : index'[k] = index[k]
          /\ numMatches' = numMatches
          /\ DOMAIN index'.functions = DOMAIN index.functions
          /\ \A k \in DOMAIN index.functions :
                LET f == index.functions[k]
                    g == index'.functions[k]
                IN  /\ WithoutRewritten(g) = WithoutRewritten(f)
                    /\ g.returnType = f.returnType
                    /\ g.templateParams = f.templateParams
                    /\ g.ID = f.ID /\ g.parentNamespaceID = f.parentNamespaceID
                    /\ (\A r \in DOMAIN index.records :
                            k \notin Range(index.records[r].methodIDs)) => g = f
                    /\ g.proto = f.proto =>
                          /\ g.name = f.name
                          /\ g.postTemplate = f.postTemplate
                          /\ g.nameStart = f.nameStart]_vars

\* updateMemberFunctions has rewritten T Foo<T>::get(): the proto shows T, the
\* return type still has the placeholder; the free function next to it is as
\* it was
C29_Witness ==
    /\ stage \in After("updateMemberFunctions")
    /\ 31 \in DOMAIN index.functions /\ 37 \in DOMAIN index.functions
    /\ index.functions[31].proto = "T get()"
    /\ firstValue.functions[31].proto = "type-parameter-0-0 get()"
    /\ index.functions[31].returnType.name = "type-parameter-0-0"
    /\ index.functions[37] = firstValue.functions[37]

\* C30: pruneTypeRefs resolves IDs against records, enums and aliases only: an
\* alias whose target.id is the SymbolID of a function or of a namespace that
\* is in the Index, such as a using-declaration that imports a method of a base
\* class, has its target.id set to null and its target.name kept.
C30_FunctionTargetsSevered ==
    stage = "done" =>
        \A a \in DOMAIN index.aliases :
            LET target == firstValue.aliases[a].target
            IN  (/\ target.id \in DOMAIN index.functions \cup DOMAIN index.namespaces
                 /\ ~contains(index.records, target.id)
                 /\ ~contains(index.enums, target.id)
                 /\ ~contains(index.aliases, target.id))
                    => /\ index.aliases[a].target.id = NullID
                       /\ index.aliases[a].target.name = target.name

\* using Bar::run inside Foo, with Bar and Bar::run in the Index: the alias has
\* kept the name ns::Bar::run and lost the id of the method, which is still a
\* key of functions
C30_Witness ==
    /\ stage = "done"
    /\ 42 \in DOMAIN index.aliases
    /\ 35 \in DOMAIN index.functions
    /\ firstValue.aliases[42].target = TypeRef("ns::Bar::run", 35)
    /\ index.aliases[42].target = TypeRef("ns::Bar::run", NullID)

====
